---- MODULE Spec2Model ----
(***************************************************************************)
(* A model of the DJI telemetry pipeline: the SRT block parser             *)
(* (extract_srt_metadata.py), the consolidator (create_consolidated_csv.py)*)
(* and the health-index generator (add_health_index.py).                   *)
(*                                                                         *)
(* Text is a sequence of atoms.  An atom is one character, except that a   *)
(* keyword of the SRT format (FrameCnt, latitude, rel_alt, ...) is a single*)
(* atom.  Python's None is the one-atom text <<"None">>, whose atom occurs *)
(* in no input; the empty string is << >>.                                 *)
(***************************************************************************)
EXTENDS Integers, Sequences, FiniteSets, TLC

VARIABLES
    lines,        \* extract_frame_info: the block handed to it (a list of lines)
    frame,        \* extract_frame_info: the value it returned
    pcx,          \* extract_frame_info: "call" before, "done" after
    src,          \* parse_srt_file: the blocks the source file was written from
    content,      \* parse_srt_file: the text read from the file
    blocks,       \* parse_srt_file: re.split's result
    bi,           \* parse_srt_file: position of the for loop in blocks
    all_frames,   \* parse_srt_file: the list being returned
    pcf,          \* parse_srt_file: "open", "loop", "done"
    disk,         \* create_consolidated_csv: the *_metadata.csv files on disk
    csv_files,    \* create_consolidated_csv: the list glob returned
    all_rows,     \* create_consolidated_csv: the rows loaded so far
    video_stats,  \* create_consolidated_csv: the statistics collected so far
    table,        \* the rows written to all_metadata_consolidated.csv
    report,       \* the values written to statistics_summary.txt
    pcc,          \* create_consolidated_csv: "glob", "load", "loaded", "written", ...
    rng,          \* the state of the shared generator of the random module
    call,         \* generate_health_index: the arguments of the last call
    health,       \* generate_health_index: the value the last call returned
    seed,         \* generate_health_index: the value the last call gave to random.seed
    first,        \* history: the arguments and the value of the earliest call,
                  \* and whether a call with other arguments has followed it
    input_csv,    \* add_health_index_to_csv: the table in the input file
    hk,           \* add_health_index_to_csv: position of the reader in the rows
    hrows,        \* add_health_index_to_csv: the list rows
    output_csv,   \* add_health_index_to_csv: the table written (<< >>: no file)
    pch,          \* add_health_index_to_csv: "open", "loop", "done", "invalid"
    points,       \* create_interpolation_grid: the list of points handed to it
    grid_size,    \* create_interpolation_grid: the cells per dimension
    grid_points,  \* create_interpolation_grid: the list it returned
    pcg,          \* create_interpolation_grid: "call", "returned", "raised"
    out_table,    \* CSV writer and reader: the table handed to the writer
    csv_file,     \* CSV writer and reader: the characters of the file
    read_rows,    \* CSV writer and reader: the rows read_csv_file returned
    pcr,          \* CSV writer and reader: "write", "read", "done"
    srt,          \* the stages: the frames of the .SRT file, or NoFile
    files,        \* the stages: the artifacts under extracted_metadata/ and maps/
    said,         \* the stages: the script invoked last and what it printed last
    runs,         \* the stages: the invocations so far
    seen          \* the stages: whether each stage's input existed when it last ran

varsX == <<lines, frame, pcx>>
varsF == <<src, content, blocks, bi, all_frames, pcf>>
varsC == <<disk, csv_files, all_rows, video_stats, table, report, pcc>>
varsS == <<rng, call, health, seed, first>>
varsH == <<input_csv, hk, hrows, output_csv, pch>>
varsG == <<points, grid_size, grid_points, pcg>>
varsR == <<out_table, csv_file, read_rows, pcr>>
varsP == <<srt, files, said, runs, seen>>
varsLater == <<varsH, varsG, varsR, varsP>>
vars == <<varsX, varsF, varsC, varsS, varsLater>>

-----------------------------------------------------------------------------
(* Bounds *)

MaxLines == 3      \* lines per block handed to extract_frame_info
MaxBlocks == 3     \* blocks per source file
MaxRows == 3       \* rows in all the per-source CSV files together

-----------------------------------------------------------------------------
(* Python values and character classes *)

None == <<"None">>
Truthy(v) == v # None /\ v # << >>

Min(S) == CHOOSE x \in S : \A y \in S : x <= y
Max(S) == CHOOSE x \in S : \A y \in S : y <= x

Digits == {"0", "1", "2", "3", "4", "5", "6", "7", "8", "9"}
IsDigit(c) == c \in Digits                  \* \d
IsSpace(c) == c \in {" ", "\n"}             \* \s
IsNum(c) == IsDigit(c) \/ c = "."           \* [\d.]
IsEv(c) == IsDigit(c) \/ c = "-"            \* [-\d]
NotClose(c) == c # "]"                      \* [^\]]

\* c is in the character class named cls
InClass(cls, c) ==
    CASE cls = "d"  -> IsDigit(c)
      [] cls = "s"  -> IsSpace(c)
      [] cls = "d." -> IsNum(c)
      [] cls = "-d" -> IsEv(c)
      [] cls = "^]" -> NotClose(c)

\* the literal lit occurs in s at position i
IsPrefixAt(lit, s, i) ==
    /\ i + Len(lit) - 1 <= Len(s)
    /\ \A k \in 1..Len(lit) : s[i + k - 1] = lit[k]

\* the last position of the longest run of cls-characters of s that starts at
\* i (i - 1 when the run is empty)
RunEnd(s, i, cls) ==
    CHOOSE j \in (i - 1)..Len(s) :
        /\ \A k \in i..j : InClass(cls, s[k])
        /\ (j = Len(s) \/ ~InClass(cls, s[j + 1]))

\* The group captured by the pattern  pre \s* (cls+) post  anchored at i, or
\* None.  \s* and cls+ are greedy and backtrack: the longest \s* that lets the
\* rest match, then the longest group.
GroupAt(s, i, pre, cls, post) ==
    IF ~IsPrefixAt(pre, s, i) THEN None
    ELSE LET p == i + Len(pre)
             w == RunEnd(s, p, "s")
             ok(g, e) == /\ g <= e
                         /\ \A k \in g..e : InClass(cls, s[k])
                         /\ IsPrefixAt(post, s, e + 1)
             starts == {g \in p..(w + 1) : \E e \in g..Len(s) : ok(g, e)}
         IN IF starts = {} THEN None
            ELSE LET g == Max(starts)
                     e == Max({e2 \in g..Len(s) : ok(g, e2)})
                 IN SubSeq(s, g, e)

\* re.search(pattern, s).group(1) for such a pattern: the leftmost match
re_search(s, pre, cls, post) ==
    LET hits == {i \in 1..Len(s) : GroupAt(s, i, pre, cls, post) # None}
    IN IF hits = {} THEN None ELSE GroupAt(s, Min(hits), pre, cls, post)

-----------------------------------------------------------------------------
(* extract_srt_metadata.py: parse_metadata_line *)

\* (mutation) the patterns in their order, given up at the first miss: the
\* tags after it are absent
parse_metadata_line_UntilMiss(line) ==
    LET order == <<"iso", "shutter", "fnum", "ev", "color_md", "focal_len", "latitude",
                   "longitude", "rel_alt", "abs_alt", "ct">>
        own == [iso       |-> re_search(line, <<"[", "iso", ":">>, "d", <<"]">>),
                shutter   |-> re_search(line, <<"[", "shutter", ":">>, "^]", <<"]">>),
                fnum      |-> re_search(line, <<"[", "fnum", ":">>, "d.", <<"]">>),
                ev        |-> re_search(line, <<"[", "ev", ":">>, "-d", <<"]">>),
                color_md  |-> re_search(line, <<"[", "color_md", ":">>, "^]", <<"]">>),
                focal_len |-> re_search(line, <<"[", "focal_len", ":">>, "d.", <<"]">>),
                latitude  |-> re_search(line, <<"[", "latitude", ":">>, "d.", <<"]">>),
                longitude |-> re_search(line, <<"[", "longitude", ":">>, "d.", <<"]">>),
                rel_alt   |-> re_search(line, <<"[", "rel_alt", ":">>, "d.", << >>),
                abs_alt   |-> re_search(line, <<"abs_alt", ":">>, "d.", <<"]">>),
                ct        |-> re_search(line, <<"[", "ct", ":">>, "d", <<"]">>)]
    IN [key \in DOMAIN own |->
          LET n == CHOOSE k \in 1..Len(order) : order[k] = key
          IN IF \A k \in 1..n : own[order[k]] # None THEN own[key] ELSE None]

parse_metadata_line(line) ==
    [iso       |-> re_search(line, <<"[", "iso", ":">>, "d", <<"]">>),
     shutter   |-> re_search(line, <<"[", "shutter", ":">>, "^]", <<"]">>),
     fnum      |-> re_search(line, <<"[", "fnum", ":">>, "d.", <<"]">>),
     ev        |-> re_search(line, <<"[", "ev", ":">>, "-d", <<"]">>),
     color_md  |-> re_search(line, <<"[", "color_md", ":">>, "^]", <<"]">>),
     focal_len |-> re_search(line, <<"[", "focal_len", ":">>, "d.", <<"]">>),
     latitude  |-> re_search(line, <<"[", "latitude", ":">>, "d.", <<"]">>),
     longitude |-> re_search(line, <<"[", "longitude", ":">>, "d.", <<"]">>),
     rel_alt   |-> re_search(line, <<"[", "rel_alt", ":">>, "d.", << >>),
     abs_alt   |-> re_search(line, <<"abs_alt", ":">>, "d.", <<"]">>),
     ct        |-> re_search(line, <<"[", "ct", ":">>, "d", <<"]">>)]

-----------------------------------------------------------------------------
(* extract_srt_metadata.py: extract_frame_info *)

\* (mutation) the counter is coerced to a number: leading zeros are lost
FrameCntSearch_Coerced(line) ==
    LET g == re_search(line, <<"FrameCnt", ":">>, "d", << >>)
        nz == {k \in 1..Len(g) : g[k] # "0"}
    IN IF g = None THEN None
       ELSE IF nz = {} THEN <<"0">> ELSE SubSeq(g, Min(nz), Len(g))

\* re.search(r'FrameCnt:\s*(\d+)', line).group(1), or None
FrameCntSearch(line) == re_search(line, <<"FrameCnt", ":">>, "d", << >>)

\* a fixed-width pattern: "d" stands for \d, anything else for itself
PatAt(pat, s, i) ==
    /\ i + Len(pat) - 1 <= Len(s)
    /\ \A k \in 1..Len(pat) :
          IF pat[k] = "d" THEN IsDigit(s[i + k - 1]) ELSE s[i + k - 1] = pat[k]

TsDatePat == <<"d", "d", "d", "d", "-", "d", "d", "-", "d", "d">>
TsTimePat == <<"d", "d", ":", "d", "d", ":", "d", "d", ".", "d", "d", "d">>

\* \d{4}-\d{2}-\d{2}\s+\d{2}:\d{2}:\d{2}\.\d{3} anchored at i, or None
TimestampAt(s, i) ==
    IF ~PatAt(TsDatePat, s, i) THEN None
    ELSE LET p == i + Len(TsDatePat)
             w == RunEnd(s, p, "s")
         IN IF w < p \/ ~PatAt(TsTimePat, s, w + 1) THEN None
            ELSE SubSeq(s, i, w + Len(TsTimePat))

TimestampSearch(line) ==
    LET hits == {i \in 1..Len(line) : TimestampAt(line, i) # None}
    IN IF hits = {} THEN None ELSE TimestampAt(line, Min(hits))

Contains(line, c) == \E k \in 1..Len(line) : line[k] = c

\* '[' in line and ':' in line and ']' in line
IsMetadataLine(line) ==
    Contains(line, "[") /\ Contains(line, ":") /\ Contains(line, "]")

\* (mutation) the loop does not break: a later match replaces the value
FirstMatch_Last(found) ==
    LET hits == {k \in 1..Len(found) : found[k] # None}
    IN IF hits = {} THEN None ELSE found[Max(hits)]

\* for line in lines: m = search(line); if m: value = m; break
\* (found[k] is the search's result on the k-th line)
FirstMatch(found) ==
    LET hits == {k \in 1..Len(found) : found[k] # None}
    IN IF hits = {} THEN None ELSE found[Min(hits)]

\* (mutation) the loop does not stop: the last such line is taken
MetadataLine_Last(ls) ==
    LET hits == {k \in 1..Len(ls) : IsMetadataLine(ls[k])}
    IN IF hits = {} THEN None ELSE ls[Max(hits)]

\* the line the third loop of extract_frame_info stops at, or None
MetadataLine(ls) ==
    LET hits == {k \in 1..Len(ls) : IsMetadataLine(ls[k])}
    IN IF hits = {} THEN None ELSE ls[Min(hits)]

NoneFrame == [none |-> TRUE]       \* extract_frame_info returning None

\* (mutation) the validation forgets the longitude
FrameValid_NoLongitude(fd) == Truthy(fd.frame_index) /\ Truthy(fd.latitude)

\* (mutation) the validation also demands a timestamp
FrameValid_NeedsTimestamp(fd) ==
    /\ Truthy(fd.frame_index) /\ Truthy(fd.latitude) /\ Truthy(fd.longitude)
    /\ Truthy(fd.timestamp)

\* if frame_index and latitude and longitude: return frame_data
FrameValid(fd) ==
    Truthy(fd.frame_index) /\ Truthy(fd.latitude) /\ Truthy(fd.longitude)

\* (mutation) without `if not metadata_line: return None`: re.search on None
\* raises TypeError
extract_frame_info_NoNoneCheck(ls) ==
    IF ~Truthy(MetadataLine(ls)) THEN [raised |-> "TypeError"]
    ELSE LET metadata == parse_metadata_line(MetadataLine(ls))
             found == [latitude |-> metadata.latitude, longitude |-> metadata.longitude,
                       frame_index |-> FirstMatch([k \in 1..Len(ls) |-> FrameCntSearch(ls[k])])]
         IN IF Truthy(found.frame_index) /\ Truthy(found.latitude) /\ Truthy(found.longitude)
            THEN found ELSE NoneFrame

extract_frame_info(ls) ==
    LET metadata_line == MetadataLine(ls)
    IN IF ~Truthy(metadata_line) THEN NoneFrame
       ELSE LET metadata == parse_metadata_line(metadata_line)
                frame_data ==
                    [frame_index       |-> FirstMatch([k \in 1..Len(ls) |-> FrameCntSearch(ls[k])]),
                     timestamp         |-> FirstMatch([k \in 1..Len(ls) |-> TimestampSearch(ls[k])]),
                     iso               |-> metadata.iso,
                     shutter           |-> metadata.shutter,
                     aperture          |-> metadata.fnum,
                     ev                |-> metadata.ev,
                     color_mode        |-> metadata.color_md,
                     focal_length      |-> metadata.focal_len,
                     latitude          |-> metadata.latitude,
                     longitude         |-> metadata.longitude,
                     relative_altitude |-> metadata.rel_alt,
                     absolute_altitude |-> metadata.abs_alt,
                     color_temperature |-> metadata.ct]
            IN IF FrameValid(frame_data) THEN frame_data ELSE NoneFrame

-----------------------------------------------------------------------------
(* Input lines of the SRT format *)

CntLine(d) == <<"FrameCnt", ":", " ">> \o d
Tag(key, val) == <<"[", key, ":", " ">> \o val \o <<"]">>

TsText == <<"2", "0", "2", "4", "-", "0", "1", "-", "0", "2", " ",
            "0", "3", ":", "0", "4", ":", "0", "5", ".", "6", "7", "8">>
TsLate == [TsText EXCEPT ![23] = "9"]
Lat50 == <<"5", "0", ".", "1", "0", "0", "0">>
Lon11 == <<"1", "1", ".", "9", "0", "0", "0">>
LatNeg == <<"-", "2", "3", ".", "5">>

LineSet ==
    { CntLine(<<"3">>),
      CntLine(<<"0", "7">>) \o <<",", " ", "x">>,
      TsText,
      <<"x", " ">> \o TsLate \o <<"0">>,
      Tag("latitude", Lat50) \o Tag("longitude", Lon11),
      Tag("latitude", Lat50),
      Tag("longitude", Lon11) \o <<" ">> \o Tag("ev", <<"-", "1">>),
      Tag("latitude", LatNeg) \o Tag("longitude", Lon11),
      Tag("latitude", << >>) \o Tag("longitude", Lon11),
      <<"[", "x", ":", "x", "]">>,
      <<"x">>,
      Tag("iso", <<"1", "0", "0">>) \o <<" ">> \o Tag("shutter", <<"1", "/", "5">>)
          \o <<" ">> \o Tag("latitude", <<"7", ".", "5">>) \o <<" ">>
          \o Tag("longitude", <<"0">>) \o <<" ", "[", "rel_alt", ":", " ", "1", ".", "5",
                " ", "abs_alt", ":", " ", "9", "]">>,
      CntLine(<<"5">>) \o <<" ">> \o Tag("latitude", <<"1">>) \o Tag("longitude", <<"2">>) }

BlockSet == UNION {[1..n -> LineSet] : n \in 0..MaxLines}

-----------------------------------------------------------------------------
(* extract_frame_info applied to one block *)

InitX == lines \in BlockSet /\ frame = NoneFrame /\ pcx = "call"
IdleX == lines = << >> /\ frame = NoneFrame /\ pcx = "idle"

Extract ==
    /\ pcx = "call"
    /\ frame' = extract_frame_info(lines)
    /\ pcx' = "done"
    /\ UNCHANGED <<lines, varsF, varsC, varsS, varsLater>>

-----------------------------------------------------------------------------
(* C1, C2: extract_frame_info *)

HasCounter(ls) == \E k \in 1..Len(ls) : FrameCntSearch(ls[k]) # None

\* latitude and longitude are both extracted from the metadata-tag line
LatLonExtracted(ls) ==
    /\ MetadataLine(ls) # None
    /\ Truthy(parse_metadata_line(MetadataLine(ls)).latitude)
    /\ Truthy(parse_metadata_line(MetadataLine(ls)).longitude)

\* C1: a block from which latitude or longitude cannot be extracted yields no
\* record, and no returned record has an absent or empty latitude or longitude.
C1_NoRecordWithoutCoordinates ==
    pcx = "done" =>
        /\ ~LatLonExtracted(lines) => frame = NoneFrame
        /\ frame # NoneFrame =>
              /\ frame.latitude # None /\ frame.latitude # << >>
              /\ frame.longitude # None /\ frame.longitude # << >>

\* a block with a counter and a tag line that has a latitude but no longitude
\* has been rejected
C1_Witness ==
    /\ pcx = "done" /\ frame = NoneFrame
    /\ HasCounter(lines) /\ MetadataLine(lines) # None
    /\ parse_metadata_line(MetadataLine(lines)).latitude # None
    /\ parse_metadata_line(MetadataLine(lines)).longitude = None

\* C2: when the tag line carries latitude and longitude, the block is accepted
\* iff some line matches the counter tag; a missing timestamp, altitude or
\* camera field never rejects it.
C2_AcceptedIffCounter ==
    pcx = "done" /\ LatLonExtracted(lines) =>
        (frame # NoneFrame <=> HasCounter(lines))

\* a block with a counter, latitude and longitude and nothing else is accepted
C2_Witness ==
    /\ pcx = "done" /\ LatLonExtracted(lines) /\ HasCounter(lines)
    /\ frame # NoneFrame
    /\ frame.timestamp = None /\ frame.relative_altitude = None
    /\ frame.absolute_altitude = None /\ frame.iso = None /\ frame.shutter = None

-----------------------------------------------------------------------------
(* extract_srt_metadata.py: parse_srt_file *)

\* the end of the match of \n\s*\n that starts at i, or 0
SepEndAt(s, i) ==
    IF s[i] # "\n" THEN 0
    ELSE LET w == RunEnd(s, i + 1, "s")
             ends == {j \in (i + 1)..w : s[j] = "\n"}
         IN IF ends = {} THEN 0 ELSE Max(ends)

\* re.split(r'\n\s*\n', s)
RECURSIVE re_split(_)
re_split(s) ==
    LET hits == {i \in 1..Len(s) : SepEndAt(s, i) > 0}
    IN IF hits = {} THEN <<s>>
       ELSE LET i == Min(hits)
            IN <<SubSeq(s, 1, i - 1)>>
                   \o re_split(SubSeq(s, SepEndAt(s, i) + 1, Len(s)))

\* str.strip()
strip(s) ==
    LET keep == {k \in 1..Len(s) : ~IsSpace(s[k])}
    IN IF keep = {} THEN << >> ELSE SubSeq(s, Min(keep), Max(keep))

\* str.split('\n')
RECURSIVE split_nl(_)
split_nl(s) ==
    LET hits == {k \in 1..Len(s) : s[k] = "\n"}
    IN IF hits = {} THEN <<s>>
       ELSE <<SubSeq(s, 1, Min(hits) - 1)>>
                \o split_nl(SubSeq(s, Min(hits) + 1, Len(s)))

\* (mutation) an accepted record is put at the front of the list
AppendFrame_AtFront(frames, frame_data) ==
    IF frame_data # NoneFrame THEN <<frame_data>> \o frames ELSE frames

\* if frame_data: all_frames.append(frame_data)
AppendFrame(frames, frame_data) ==
    IF frame_data # NoneFrame THEN Append(frames, frame_data) ELSE frames

-----------------------------------------------------------------------------
(* Source files: blocks written by construction, so that what each block  *)
(* holds is known without parsing it                                      *)

\* a block with an optional counter line, an optional timestamp line and a tag
\* line holding the latitude and longitude tags asked for (None: no such tag)
MkBlock(cnt, ts, lat, lon) ==
    [lines |-> (IF cnt # None THEN <<CntLine(cnt)>> ELSE << >>)
               \o (IF ts THEN <<TsText>> ELSE << >>)
               \o << (IF lat # None THEN Tag("latitude", lat) ELSE <<"[", "x", ":", "x", "]">>)
                     \o (IF lon # None THEN Tag("longitude", lon) ELSE << >>) >>,
     cnt |-> cnt, lat |-> lat, lon |-> lon]

Block3 == MkBlock(<<"3">>, FALSE, Lat50, Lon11)
BlockNoCounter == MkBlock(None, FALSE, Lat50, Lon11)

FileBlocks ==
    { Block3,
      BlockNoCounter,
      MkBlock(<<"0", "7">>, TRUE, <<"7", ".", "5">>, <<"0">>),
      MkBlock(<<"4">>, FALSE, Lat50, None),
      [lines |-> << <<"x">>, <<" ", "x", ":">> >>, cnt |-> None, lat |-> None, lon |-> None] }

Separators == { <<"\n", "\n">>, <<"\n", " ", "\n", "\n">> }
Leads == { << >>, <<"\n", "\n">>, <<" ", "\n">> }
Trails == { << >>, <<"\n">>, <<"\n", "\n", " ">> }

SourceFiles ==
    [blocks : UNION {[1..n -> FileBlocks] : n \in 0..MaxBlocks},
     sep : Separators, lead : Leads, trail : Trails]

RECURSIVE Join(_, _)
Join(texts, sep) ==
    IF texts = << >> THEN << >>
    ELSE IF Len(texts) = 1 THEN texts[1]
    ELSE texts[1] \o sep \o Join(Tail(texts), sep)

\* the text of a source file
Render(f) ==
    f.lead
    \o Join([k \in 1..Len(f.blocks) |-> Join(f.blocks[k].lines, <<"\n">>)], f.sep)
    \o f.trail

-----------------------------------------------------------------------------
(* parse_srt_file applied to one source file *)

InitF ==
    /\ src \in SourceFiles
    /\ content = Render(src)
    /\ blocks = << >> /\ bi = 0 /\ all_frames = << >> /\ pcf = "open"

\* content = f.read(); blocks = re.split(...); all_frames = []
ReadAndSplit ==
    /\ pcf = "open"
    /\ blocks' = re_split(content)
    /\ bi' = 1
    /\ all_frames' = << >>
    /\ pcf' = "loop"
    /\ UNCHANGED <<src, content, varsX, varsC, varsS, varsLater>>

\* if not block.strip(): continue
SkipBlank ==
    /\ pcf = "loop" /\ bi <= Len(blocks)
    /\ strip(blocks[bi]) = << >>
    /\ bi' = bi + 1
    /\ UNCHANGED <<src, content, blocks, all_frames, pcf, varsX, varsC, varsS, varsLater>>

\* lines = block.strip().split('\n'); frame_data = extract_frame_info(lines);
\* if frame_data: all_frames.append(frame_data)
ParseBlock ==
    /\ pcf = "loop" /\ bi <= Len(blocks)
    /\ strip(blocks[bi]) # << >>
    /\ all_frames' =
          AppendFrame(all_frames, extract_frame_info(split_nl(strip(blocks[bi]))))
    /\ bi' = bi + 1
    /\ UNCHANGED <<src, content, blocks, pcf, varsX, varsC, varsS, varsLater>>

\* return all_frames
ReturnFrames ==
    /\ pcf = "loop" /\ bi > Len(blocks)
    /\ pcf' = "done"
    /\ UNCHANGED <<src, content, blocks, bi, all_frames, varsX, varsC, varsS, varsLater>>

NextF == ReadAndSplit \/ SkipBlank \/ ParseBlock \/ ReturnFrames

IdleF == /\ src = << >> /\ content = << >> /\ blocks = << >> /\ bi = 0
         /\ all_frames = << >> /\ pcf = "idle"

IdleC ==
    /\ disk = << >> /\ csv_files = << >>
    /\ all_rows = << >> /\ video_stats = << >> /\ table = << >> /\ report = << >>
    /\ pcc = "idle"

IdleS == rng = << >> /\ call = << >> /\ health = << >> /\ seed = << >> /\ first = << >>

IdleH ==
    /\ input_csv = << >> /\ hk = 0 /\ hrows = << >> /\ output_csv = << >>
    /\ pch = "idle"

IdleG == points = << >> /\ grid_size = 0 /\ grid_points = << >> /\ pcg = "idle"

IdleR == out_table = << >> /\ csv_file = << >> /\ read_rows = << >> /\ pcr = "idle"

IdleP == srt = << >> /\ files = << >> /\ said = << >> /\ runs = 0 /\ seen = << >>

IdleLater == IdleH /\ IdleG /\ IdleR /\ IdleP

\* the other components are idle
InitExtract == InitX /\ IdleF /\ IdleC /\ IdleS /\ IdleLater

SpecExtract == InitExtract /\ [][Extract]_vars

\* the other components are idle
InitParse == InitF /\ IdleX /\ IdleC /\ IdleS /\ IdleLater

SpecParse == InitParse /\ [][NextF]_vars

-----------------------------------------------------------------------------
(* C3, C4: parse_srt_file *)

\* the records of the blocks extract_frame_info accepts, in order
RECURSIVE AcceptedOf(_)
AcceptedOf(bs) ==
    IF bs = << >> THEN << >>
    ELSE (IF extract_frame_info(bs[1].lines) # NoneFrame
          THEN <<extract_frame_info(bs[1].lines)>> ELSE << >>)
         \o AcceptedOf(Tail(bs))

\* C3: parse_srt_file returns exactly the records of the blocks that
\* extract_frame_info accepts, in file order; a rejected or empty block neither
\* stops the scan nor changes the record of another block.
C3_InOrderFilter ==
    pcf = "done" => all_frames = AcceptedOf(src.blocks)

\* a file whose first block is rejected and whose later blocks give two records
C3_Witness ==
    /\ pcf = "done" /\ Len(src.blocks) = 3 /\ Len(all_frames) = 2
    /\ extract_frame_info(src.blocks[1].lines) = NoneFrame
    /\ all_frames[1] # all_frames[2]
    /\ Len(blocks) > Len(src.blocks)

\* the counter texts of the blocks written with a counter, a latitude and a
\* longitude, in order
RECURSIVE CountersOf(_)
CountersOf(bs) ==
    IF bs = << >> THEN << >>
    ELSE (IF bs[1].cnt # None /\ bs[1].lat # None /\ bs[1].lon # None
          THEN <<bs[1].cnt>> ELSE << >>)
         \o CountersOf(Tail(bs))

\* C4: the records returned are as many as the blocks that have a counter line
\* and latitude and longitude on the tag line, and each sequence index is the
\* counter's text as written; the two-block file of a block with FrameCnt: 3
\* and a block without a counter gives one record with sequence index "3".
C4_OneRecordPerCounterBlock ==
    pcf = "done" =>
        /\ Len(all_frames) = Len(CountersOf(src.blocks))
        /\ \A k \in 1..Len(all_frames) :
              all_frames[k].frame_index = CountersOf(src.blocks)[k]
        /\ src.blocks \in {<<Block3, BlockNoCounter>>, <<BlockNoCounter, Block3>>} =>
              Len(all_frames) = 1 /\ all_frames[1].frame_index = <<"3">>

\* the two-block scenario has run, and so has a file with the counter 07
C4_Witness ==
    /\ pcf = "done" /\ src.blocks = <<Block3, BlockNoCounter>>
    /\ Len(all_frames) = 1 /\ all_frames[1].latitude = Lat50

C4_WitnessLeadingZero ==
    /\ pcf = "done" /\ Len(all_frames) = 2
    /\ all_frames[2].frame_index = <<"0", "7">>

-----------------------------------------------------------------------------
(* create_consolidated_csv.py: strings, int() and float()                  *)

\* the code point of an atom (Python compares strings by code point)
Rank ==
    (" " :> 32) @@ ("+" :> 43) @@ ("-" :> 45) @@ ("." :> 46) @@ ("0" :> 48)
    @@ ("1" :> 49) @@ ("2" :> 50) @@ ("3" :> 51) @@ ("4" :> 52) @@ ("5" :> 53)
    @@ ("6" :> 54) @@ ("7" :> 55) @@ ("8" :> 56) @@ ("9" :> 57) @@ (":" :> 58)
    @@ ("A" :> 65) @@ ("B" :> 66) @@ ("a" :> 97) @@ ("b" :> 98) @@ ("x" :> 120)

\* a < b for Python strings
StrLess(a, b) ==
    \E k \in 1..Len(b) :
        /\ k - 1 <= Len(a)
        /\ \A j \in 1..(k - 1) : a[j] = b[j]
        /\ (k = Len(a) + 1 \/ Rank[a[k]] < Rank[b[k]])

RECURSIVE DecValue(_)
DecValue(ds) ==
    IF ds = << >> THEN 0
    ELSE 10 * DecValue(SubSeq(ds, 1, Len(ds) - 1)) + (Rank[ds[Len(ds)]] - 48)

Unsigned(t) == IF t # << >> /\ t[1] \in {"-", "+"} THEN Tail(t) ELSE t
Sign(t) == IF t # << >> /\ t[1] = "-" THEN -1 ELSE 1

NoneNum == [none |-> TRUE]      \* None where a number may stand
Num(n) == [val |-> n]

\* int(v): the number, or NoneNum where Python raises ValueError (not an integer
\* literal) or TypeError (None)
int(v) ==
    IF v = None THEN NoneNum
    ELSE LET body == Unsigned(strip(v))
         IN IF body # << >> /\ \A k \in 1..Len(body) : IsDigit(body[k])
            THEN Num(Sign(strip(v)) * DecValue(body))
            ELSE NoneNum

\* floats are held in thousandths
FloatScale == 1000

\* float values that are no finite number of moderate size
NaN == [nan |-> TRUE]
Inf(sign) == [inf |-> sign]
Huge(sign) == [huge |-> sign]   \* finite, of magnitude 1e305 or more

\* 10 ** k for a literal's exponent, the size the model's numbers allow
RECURSIVE Pow10(_)
Pow10(k) == IF k = 0 THEN 1 ELSE 10 * Pow10(k - 1)

\* float(v) for a literal with an exponent, mantissa "e" exponent, both runs
\* of digits: a float has no finite value from 1e309 on
FloatExp(sign, mant, ex) ==
    IF DecValue(mant) = 0 THEN Num(0)
    ELSE IF Len(mant) + DecValue(ex) >= 310 THEN Inf(sign)
    ELSE IF Len(mant) + DecValue(ex) >= 306 THEN Huge(sign)
    ELSE Num(sign * DecValue(mant) * Pow10(DecValue(ex)) * FloatScale)

\* float(v) for a text v: the number, or NoneNum where Python raises ValueError.
\* Digits after the third decimal are dropped (the inputs have zeros there).
float(v) ==
    LET body == Unsigned(strip(v))
        dots == {k \in 1..Len(body) : body[k] = "."}
        es == {k \in 1..Len(body) : body[k] = "e"}
        whole == IF dots = {} THEN body ELSE SubSeq(body, 1, Min(dots) - 1)
        frac == IF dots = {} THEN << >> ELSE SubSeq(body, Min(dots) + 1, Len(body))
        frac3 == SubSeq(frac \o <<"0", "0", "0">>, 1, 3)
        mant == SubSeq(body, 1, Min(es) - 1)
        ex == SubSeq(body, Min(es) + 1, Len(body))
    IN IF body = <<"n", "a", "n">> THEN NaN
       ELSE IF body = <<"i", "n", "f">> THEN Inf(Sign(strip(v)))
       ELSE IF /\ Cardinality(es) = 1 /\ mant # << >> /\ ex # << >>
               /\ \A k \in 1..Len(mant) : IsDigit(mant[k])
               /\ \A k \in 1..Len(ex) : IsDigit(ex[k])
       THEN FloatExp(Sign(strip(v)), mant, ex)
       ELSE IF /\ Cardinality(dots) <= 1
               /\ Len(whole) + Len(frac) > 0
               /\ \A k \in 1..Len(whole) : IsDigit(whole[k])
               /\ \A k \in 1..Len(frac) : IsDigit(frac[k])
       THEN Num(Sign(strip(v)) * (DecValue(whole) * FloatScale + DecValue(frac3)))
       ELSE NoneNum

\* try: return float(value) if value else None / except: return None
safe_float(value) == IF Truthy(value) THEN float(value) ELSE NoneNum

\* `if lat:` for lat = safe_float(...): None and 0.0 are both false
NumTruthy(x) == x # NoneNum /\ x # Num(0)

-----------------------------------------------------------------------------
(* create_consolidated_csv.py: loading and statistics                      *)

EmptyStats ==
    [count |-> 0, latitudes |-> << >>, longitudes |-> << >>, altitudes |-> << >>,
     timestamps |-> << >>]

\* video_stats[video], a defaultdict: a missing key reads as EmptyStats
StatsOf(vs, video) == IF video \in DOMAIN vs THEN vs[video] ELSE EmptyStats

AppendIf(c, list, x) == IF c THEN Append(list, x.val) ELSE list

\* the body of `for row in rows` after the row is tagged: the statistics of
\* the row's video once this row is counted
CollectRow(vs, video, row) ==
    LET st == StatsOf(vs, video)
        lat == safe_float(row.latitude)
        lon == safe_float(row.longitude)
        alt == safe_float(row.relative_altitude)
    IN (video :> [count      |-> st.count + 1,
                  latitudes  |-> AppendIf(NumTruthy(lat), st.latitudes, lat),
                  longitudes |-> AppendIf(NumTruthy(lon), st.longitudes, lon),
                  altitudes  |-> AppendIf(NumTruthy(alt), st.altitudes, alt),
                  timestamps |-> IF Truthy(row.timestamp)
                                 THEN Append(st.timestamps, row.timestamp)
                                 ELSE st.timestamps])
       @@ vs

\* row['video_name'] = video_name
TagRow(row, video) == ("video_name" :> video) @@ row

RECURSIVE CollectRows(_, _, _)
CollectRows(vs, video, rows) ==
    IF rows = << >> THEN vs
    ELSE CollectRows(CollectRow(vs, video, rows[1]), video, Tail(rows))

-----------------------------------------------------------------------------
(* create_consolidated_csv.py: ordering                                    *)

\* csv_file paths compare part by part: the directory, then the file name
PathLess(f, g) ==
    StrLess(f.dir, g.dir) \/ (f.dir = g.dir /\ StrLess(f.name, g.name))

\* (mutation) the files are taken in the order glob happened to return them
sorted_paths_AsDiscovered(fs) == fs

\* sorted(csv_files): the paths are distinct, so the order is total
sorted_paths(fs) ==
    [k \in 1..Len(fs) |->
        CHOOSE f \in {fs[i] : i \in 1..Len(fs)} :
            Cardinality({i \in 1..Len(fs) : PathLess(fs[i], f)}) = k - 1]

\* try: frame_idx = int(row.get('frame_index', 0)) / except: frame_idx = 0
FrameIdx(row) ==
    IF int(row.frame_index) = NoneNum THEN 0 ELSE int(row.frame_index).val

\* (mutation) the key forgets the frame index
sort_key_VideoOnly(row) == <<row.video_name, 0>>

sort_key(row) == <<row.video_name, FrameIdx(row)>>

\* k1 < k2 for the tuples (video, frame_idx)
KeyLess(k1, k2) == StrLess(k1[1], k2[1]) \/ (k1[1] = k2[1] /\ k1[2] < k2[2])

\* (mutation) the sort stores the index it sorted by: a missing or
\* non-integer frame_index becomes 0
InsertRow_StoresKey(sorted, row) ==
    LET p == Cardinality({i \in 1..Len(sorted) :
                             ~KeyLess(sort_key(row), sort_key(sorted[i]))})
        kept == IF int(row.frame_index) = NoneNum
                THEN [row EXCEPT !.frame_index = <<"0">>] ELSE row
    IN SubSeq(sorted, 1, p) \o <<kept>> \o SubSeq(sorted, p + 1, Len(sorted))

\* list.sort(key=sort_key) is stable: a row goes after the rows that came
\* before it and whose key is not greater
InsertRow(sorted, row) ==
    LET p == Cardinality({i \in 1..Len(sorted) :
                             ~KeyLess(sort_key(row), sort_key(sorted[i]))})
    IN SubSeq(sorted, 1, p) \o <<row>> \o SubSeq(sorted, p + 1, Len(sorted))

RECURSIVE SortRows(_)
SortRows(rows) ==
    IF rows = << >> THEN << >>
    ELSE InsertRow(SortRows(SubSeq(rows, 1, Len(rows) - 1)), rows[Len(rows)])

Fieldnames ==
    <<"video_name", "frame_index", "timestamp", "latitude", "longitude",
      "relative_altitude", "iso">>

\* output_row = {col: row.get(col, '') ...}; the writer writes None as ''
OutputRow(row) ==
    [col \in {Fieldnames[k] : k \in 1..Len(Fieldnames)} |->
        IF row[col] = None THEN << >> ELSE row[col]]

-----------------------------------------------------------------------------
(* create_consolidated_csv.py: the loop over the files                     *)

TagRows(rows, video) == [k \in 1..Len(rows) |-> TagRow(rows[k], video)]

\* (mutation) the loop ends after the first file
LoadRows_FirstFileOnly(fs, rows) ==
    IF fs = << >> \/ ~fs[1].readable THEN rows
    ELSE rows \o TagRows(fs[1].rows, fs[1].dir)

\* for csv_file in sorted(csv_files): all_rows after the files fs, starting
\* from rows.  A file that cannot be read (read_csv_file raises) is reported
\* and skipped.
RECURSIVE LoadRows(_, _)
LoadRows(fs, rows) ==
    IF fs = << >> THEN rows
    ELSE IF ~fs[1].readable THEN LoadRows(Tail(fs), rows)
    ELSE LoadRows(Tail(fs), rows \o TagRows(fs[1].rows, fs[1].dir))

\* the same loop: video_stats after the files fs, starting from vs
RECURSIVE LoadStats(_, _)
LoadStats(fs, vs) ==
    IF fs = << >> THEN vs
    ELSE IF ~fs[1].readable THEN LoadStats(Tail(fs), vs)
    ELSE LoadStats(Tail(fs), CollectRows(vs, fs[1].dir, TagRows(fs[1].rows, fs[1].dir)))

LoadFiles(fs, rows, vs) == [rows |-> LoadRows(fs, rows), stats |-> LoadStats(fs, vs)]

-----------------------------------------------------------------------------
(* create_consolidated_csv.py: the statistics file                         *)

SeqSet(list) == {list[k] : k \in 1..Len(list)}

RECURSIVE SeqSum(_)
SeqSum(list) == IF list = << >> THEN 0 ELSE list[1] + SeqSum(Tail(list))

\* min() and max() of a list of strings
StrMin(list) == CHOOSE t \in SeqSet(list) : \A u \in SeqSet(list) : ~StrLess(u, t)
StrMax(list) == CHOOSE t \in SeqSet(list) : \A u \in SeqSet(list) : ~StrLess(t, u)

\* sum(list) / len(list), kept as the exact quotient
Mean(list) == [sum |-> SeqSum(list), n |-> Len(list)]

NoLines == [k \in {} |-> 0]      \* nothing written

\* (mutation) an empty category is written with zeros
RangeLines_ZeroWhenEmpty(list, lo, hi) ==
    IF list # << >> THEN (lo :> Min(SeqSet(list))) @@ (hi :> Max(SeqSet(list)))
    ELSE (lo :> 0) @@ (hi :> 0)

\* if list: write min(list) and max(list)
RangeLines(list, lo, hi) ==
    IF list # << >> THEN (lo :> Min(SeqSet(list))) @@ (hi :> Max(SeqSet(list)))
    ELSE NoLines

\* (mutation) the mean is taken over one element too many
MeanLines_OffByOne(list, key) ==
    IF list # << >> THEN key :> [sum |-> SeqSum(list), n |-> Len(list) + 1]
    ELSE NoLines

\* if altitudes: avg = sum(altitudes) / len(altitudes); write it
MeanLines(list, key) == IF list # << >> THEN key :> Mean(list) ELSE NoLines

\* the "Estatísticas Detalhadas por Vídeo" section for one video
VideoReport(st) ==
    ("frames" :> st.count)
    @@ RangeLines(st.latitudes, "lat_min", "lat_max")
    @@ RangeLines(st.longitudes, "lon_min", "lon_max")
    @@ RangeLines(st.altitudes, "alt_min", "alt_max")
    @@ MeanLines(st.altitudes, "alt_mean")
    @@ (IF st.timestamps # << >>
        THEN ("ts_first" :> StrMin(st.timestamps)) @@ ("ts_last" :> StrMax(st.timestamps))
        ELSE NoLines)

\* sorted(video_stats.keys())
SortedVideos(vs) ==
    [k \in 1..Cardinality(DOMAIN vs) |->
        CHOOSE v \in DOMAIN vs : Cardinality({u \in DOMAIN vs : StrLess(u, v)}) = k - 1]

\* all_lats.extend(stats['latitudes']) for video in sorted(video_stats.keys())
RECURSIVE Extend(_, _, _)
Extend(vs, videos, field) ==
    IF videos = << >> THEN << >>
    ELSE vs[videos[1]][field] \o Extend(vs, Tail(videos), field)

\* the header and the "Estatísticas Globais" section
GlobalReport(rows, vs) ==
    ("frames" :> Len(rows)) @@ ("videos" :> Cardinality(DOMAIN vs))
    @@ RangeLines(Extend(vs, SortedVideos(vs), "latitudes"), "lat_min", "lat_max")
    @@ RangeLines(Extend(vs, SortedVideos(vs), "longitudes"), "lon_min", "lon_max")
    @@ RangeLines(Extend(vs, SortedVideos(vs), "altitudes"), "alt_min", "alt_max")
    @@ MeanLines(Extend(vs, SortedVideos(vs), "altitudes"), "alt_mean")

-----------------------------------------------------------------------------
(* The per-source CSV files                                                *)

\* a row as csv.DictReader gives it: every value a text, None where the line
\* was short.  iso stands for the camera fields, which the code only copies.
RowSet ==
    { [frame_index |-> <<"1">>, timestamp |-> <<"0", "9">>, latitude |-> <<"5", "0", ".", "1">>,
       longitude |-> <<"1", "1", ".", "9">>, relative_altitude |-> <<"1", ".", "5">>,
       iso |-> <<"1", "0", "0">>],
      [frame_index |-> <<"2">>, timestamp |-> <<"1", "0">>, latitude |-> <<"5", "0", ".", "3">>,
       longitude |-> <<"1", "1", ".", "7">>, relative_altitude |-> <<"0", ".", "0">>,
       iso |-> <<"1", "0", "0">>],
      [frame_index |-> << >>, timestamp |-> << >>, latitude |-> <<"x">>,
       longitude |-> <<"1", "1", ".", "8">>, relative_altitude |-> << >>,
       iso |-> << >>],
      [frame_index |-> <<"1", ".", "5">>, timestamp |-> <<"9">>, latitude |-> <<"0">>,
       longitude |-> <<"-", "0", ".", "5">>, relative_altitude |-> <<"2", ".", "5">>,
       iso |-> None],
      [frame_index |-> <<"1">>, timestamp |-> <<"1">>, latitude |-> <<"5", "0", ".", "2">>,
       longitude |-> <<"0", ".", "0">>, relative_altitude |-> <<"x">>,
       iso |-> <<"2", "0", "0">>] }

VideoA == <<"A">>
VideoB == <<"B">>
Paths ==
    << [dir |-> VideoA, name |-> <<"a">>], [dir |-> VideoA, name |-> <<"b">>],
       [dir |-> VideoB, name |-> <<"a">>] >>

\* the files on disk: the rows rs dealt to the three paths at the cuts c1 <= c2,
\* the paths in `present` existing, the path `bad` (0: none) unreadable
MkDisk(rs, c1, c2, present, bad) ==
    LET rowsOf == << SubSeq(rs, 1, c1), SubSeq(rs, c1 + 1, c2), SubSeq(rs, c2 + 1, Len(rs)) >>
    IN { [dir |-> Paths[k].dir, name |-> Paths[k].name, rows |-> rowsOf[k],
          readable |-> (k # bad)] : k \in present }

\* lists of up to MaxRows rows, no row twice
RowLists ==
    UNION { {rs \in [1..n -> RowSet] : \A i, j \in 1..n : i # j => rs[i] # rs[j]} :
            n \in 0..MaxRows }

\* which paths exist, and which of them (0: none) cannot be read
Presence == { <<{}, 0>>, <<{1, 3}, 0>>, <<{1, 2, 3}, 0>>, <<{1, 2, 3}, 3>> }

Disks ==
    UNION { { MkDisk(rs, c[1], c[2], pb[1], pb[2]) :
                c \in {d \in (0..Len(rs)) \X (0..Len(rs)) : d[1] <= d[2]},
                pb \in Presence } :
            rs \in RowLists }

\* the orders in which glob can return the files
Orders(fs) ==
    { o \in [1..Cardinality(fs) -> fs] : \A i, j \in 1..Cardinality(fs) : i # j => o[i] # o[j] }

-----------------------------------------------------------------------------
(* create_consolidated_csv                                                 *)

InitC ==
    /\ disk \in Disks
    /\ csv_files = << >> /\ all_rows = << >> /\ video_stats = << >>
    /\ table = << >> /\ report = << >>
    /\ pcc = "glob"

\* csv_files = list(base_dir.glob('*/*_metadata.csv')), in any order
Glob ==
    /\ pcc = "glob" /\ disk # {}
    /\ csv_files' \in Orders(disk)
    /\ pcc' = "load"
    /\ UNCHANGED <<disk, all_rows, video_stats, table, report, varsX, varsF, varsS, varsLater>>

\* if not csv_files: return
ReturnNoFiles ==
    /\ pcc = "glob" /\ disk = {}
    /\ pcc' = "no_files"
    /\ UNCHANGED <<disk, csv_files, all_rows, video_stats, table, report, varsX, varsF, varsS, varsLater>>

\* for csv_file in sorted(csv_files): ...
LoadAll ==
    /\ pcc = "load"
    /\ LET loaded == LoadFiles(sorted_paths(csv_files), << >>, << >>)
       IN /\ all_rows' = loaded.rows
          /\ video_stats' = loaded.stats
    /\ pcc' = "loaded"
    /\ UNCHANGED <<disk, csv_files, table, report, varsX, varsF, varsS, varsLater>>

\* if not all_rows: return
ReturnNoData ==
    /\ pcc = "loaded" /\ all_rows = << >>
    /\ pcc' = "no_data"
    /\ UNCHANGED <<disk, csv_files, all_rows, video_stats, table, report, varsX, varsF, varsS, varsLater>>

\* all_rows.sort(key=sort_key); write all_metadata_consolidated.csv
SortAndWrite ==
    /\ pcc = "loaded" /\ all_rows # << >>
    /\ all_rows' = SortRows(all_rows)
    /\ table' = [k \in 1..Len(all_rows) |-> OutputRow(SortRows(all_rows)[k])]
    /\ pcc' = "written"
    /\ UNCHANGED <<disk, csv_files, video_stats, report, varsX, varsF, varsS, varsLater>>

\* write statistics_summary.txt
WriteStats ==
    /\ pcc = "written"
    /\ report' = [videos |-> [v \in DOMAIN video_stats |-> VideoReport(video_stats[v])],
                  global |-> GlobalReport(all_rows, video_stats)]
    /\ pcc' = "done"
    /\ UNCHANGED <<disk, csv_files, all_rows, video_stats, table, varsX, varsF, varsS, varsLater>>

NextC == Glob \/ ReturnNoFiles \/ LoadAll \/ ReturnNoData \/ SortAndWrite \/ WriteStats

\* the other components are idle
InitConsolidate == InitC /\ IdleX /\ IdleF /\ IdleS /\ IdleLater

SpecConsolidate == InitConsolidate /\ [][NextC]_vars

-----------------------------------------------------------------------------
(* C5, C6: the order of the merged table *)

\* the key the merged table is ordered by: the source, then the sequence index
\* as an integer, zero when it is missing or no integer
TableKey(r) ==
    <<r.video_name, IF int(r.frame_index) = NoneNum THEN 0 ELSE int(r.frame_index).val>>

\* the frame indices, in order, of the rows of the readable files of video v
IndicesOnDisk(v) ==
    { [k \in 1..Len(f.rows) |-> f.rows[k].frame_index] :
        f \in {g \in disk : g.dir = v /\ g.readable /\ g.rows # << >>} }

\* source A holds the indices 2, 1 and source B the index 1
ExampleAB ==
    /\ IndicesOnDisk(VideoA) = { << <<"2">>, <<"1">> >> }
    /\ IndicesOnDisk(VideoB) = { << <<"1">> >> }

\* C5: the merged table is sorted ascending by (source_id, sequence_index as
\* an integer, zero when missing or not an integer); sources A (2, 1) and B (1)
\* give [A:1, A:2, B:1].
C5_SortedBySourceThenIndex ==
    pcc \in {"written", "done"} =>
        /\ \A i, j \in 1..Len(table) :
              i < j => ~KeyLess(TableKey(table[j]), TableKey(table[i]))
        /\ ExampleAB =>
              [k \in 1..Len(table) |-> <<table[k].video_name, table[k].frame_index>>]
                  = << <<VideoA, <<"1">> >>, <<VideoA, <<"2">> >>, <<VideoB, <<"1">> >> >>

\* the example has been consolidated
C5_Witness == pcc = "done" /\ ExampleAB

\* a row without an index is ordered before the row with index 1
C5_WitnessMissingIndex ==
    /\ pcc = "done" /\ Len(table) >= 2
    /\ table[1].video_name = table[2].video_name
    /\ table[1].frame_index = << >> /\ table[2].frame_index = <<"1">>

\* what the code writes when glob returns the files in the order o
TableOf(o) ==
    LET rows == SortRows(LoadRows(sorted_paths(o), << >>))
    IN [k \in 1..Len(rows) |-> OutputRow(rows[k])]

\* C6: the merged table is the same for every order in which the files are
\* discovered.
C6_SameTableForEveryDiscoveryOrder ==
    pcc = "done" => \A o \in Orders(disk) : TableOf(o) = table

\* three files were discovered out of order, and two rows of different files
\* of one video have the same key
C6_Witness ==
    /\ pcc = "done" /\ Len(csv_files) = 3
    /\ csv_files # sorted_paths(csv_files)
    /\ \E i, j \in 1..Len(table) :
          /\ i < j /\ TableKey(table[i]) = TableKey(table[j])
          /\ \E f, g \in disk : /\ f # g /\ f.dir = g.dir
                                /\ \E k \in 1..Len(f.rows) : OutputRow(TagRow(f.rows[k], f.dir)) = table[i]
                                /\ \E k \in 1..Len(g.rows) : OutputRow(TagRow(g.rows[k], g.dir)) = table[j]

-----------------------------------------------------------------------------
(* C7: which records the aggregates accumulate *)

\* the values of `field` that parse to a number, in the rows of video v
RECURSIVE ParsedValues(_, _, _)
ParsedValues(rows, v, field) ==
    IF rows = << >> THEN << >>
    ELSE (IF rows[1].video_name = v /\ safe_float(rows[1][field]) # NoneNum
          THEN <<safe_float(rows[1][field]).val>> ELSE << >>)
         \o ParsedValues(Tail(rows), v, field)

RowsOf(rows, v) == {k \in 1..Len(rows) : rows[k].video_name = v}

\* C7: the aggregates accumulate over exactly the records whose field parses
\* to a number, those that parse to zero included; a record that fails on one
\* field still counts and still contributes its other fields.
C7_AccumulatesEveryParsedValue ==
    pcc = "loaded" =>
        \A v \in {VideoA, VideoB} :
            RowsOf(all_rows, v) # {} =>
                /\ v \in DOMAIN video_stats
                /\ video_stats[v].count = Cardinality(RowsOf(all_rows, v))
                /\ video_stats[v].latitudes = ParsedValues(all_rows, v, "latitude")
                /\ video_stats[v].longitudes = ParsedValues(all_rows, v, "longitude")
                /\ video_stats[v].altitudes = ParsedValues(all_rows, v, "relative_altitude")

-----------------------------------------------------------------------------
(* C8, C9: the statistics *)

Categories ==
    { [list |-> "latitudes", keys |-> {"lat_min", "lat_max"}],
      [list |-> "longitudes", keys |-> {"lon_min", "lon_max"}],
      [list |-> "altitudes", keys |-> {"alt_min", "alt_max", "alt_mean"}],
      [list |-> "timestamps", keys |-> {"ts_first", "ts_last"}] }

FieldOf(list) ==
    CASE list = "latitudes" -> "latitude" [] list = "longitudes" -> "longitude"
      [] list = "altitudes" -> "relative_altitude" [] list = "timestamps" -> "timestamp"

\* the row has a value for the category: a number, or a timestamp text
Contributes(row, list) ==
    IF list = "timestamps" THEN Truthy(row.timestamp)
    ELSE safe_float(row[FieldOf(list)]) # NoneNum

\* the values accumulated for a category over all videos
GlobalList(list) == Extend(video_stats, SortedVideos(video_stats), list)

HasRange(m, list, lo, hi) ==
    list # << >> =>
        /\ m[lo] \in SeqSet(list) /\ \A x \in SeqSet(list) : m[lo] <= x
        /\ m[hi] \in SeqSet(list) /\ \A x \in SeqSet(list) : x <= m[hi]

HasMean(m, list, key) ==
    list # << >> => m[key].sum = SeqSum(list) /\ m[key].n = Len(list) /\ m[key].n > 0

\* C9 as stated: count, min, max and mean of latitude, of longitude and of
\* altitude, and first and last timestamp, per source and globally.
C9_Original ==
    pcc = "done" =>
        /\ \A v \in DOMAIN video_stats :
              /\ video_stats[v].latitudes # << >> =>
                    {"lat_min", "lat_max", "lat_mean"} \subseteq DOMAIN report.videos[v]
              /\ video_stats[v].longitudes # << >> =>
                    {"lon_min", "lon_max", "lon_mean"} \subseteq DOMAIN report.videos[v]
        /\ GlobalList("timestamps") # << >> =>
              {"ts_first", "ts_last"} \subseteq DOMAIN report.global

\* C9 (amended): per source the statistics hold the record count, min and max
\* of latitude and of longitude, min, max and mean of altitude and the first
\* and last timestamp in string order; globally the record count, min and max
\* of latitude and of longitude and min, max and mean of altitude; no mean of
\* latitude or longitude and no global timestamp range.
C9_Amended ==
    pcc = "done" =>
        /\ \A v \in DOMAIN video_stats :
              LET m == report.videos[v]
                  st == video_stats[v]
              IN /\ m.frames = Cardinality(RowsOf(all_rows, v))
                 /\ HasRange(m, st.latitudes, "lat_min", "lat_max")
                 /\ HasRange(m, st.longitudes, "lon_min", "lon_max")
                 /\ HasRange(m, st.altitudes, "alt_min", "alt_max")
                 /\ HasMean(m, st.altitudes, "alt_mean")
                 /\ st.timestamps # << >> =>
                       /\ m.ts_first \in SeqSet(st.timestamps)
                       /\ m.ts_last \in SeqSet(st.timestamps)
                       /\ \A t \in SeqSet(st.timestamps) :
                             ~StrLess(t, m.ts_first) /\ ~StrLess(m.ts_last, t)
                 /\ DOMAIN m \cap {"lat_mean", "lon_mean"} = {}
        /\ LET g == report.global
           IN /\ g.frames = Len(all_rows)
              /\ HasRange(g, GlobalList("latitudes"), "lat_min", "lat_max")
              /\ HasRange(g, GlobalList("longitudes"), "lon_min", "lon_max")
              /\ HasRange(g, GlobalList("altitudes"), "alt_min", "alt_max")
              /\ HasMean(g, GlobalList("altitudes"), "alt_mean")
              /\ DOMAIN g \cap {"lat_mean", "lon_mean", "ts_first", "ts_last"} = {}

\* two videos with an altitude each, one of them with timestamps whose string
\* order is not their numeric order ("10" before "9")
C9_Witness ==
    /\ pcc = "done" /\ Cardinality(DOMAIN video_stats) = 2
    /\ Len(GlobalList("altitudes")) = 2
    /\ report.global.alt_min < report.global.alt_max
    /\ \E v \in DOMAIN video_stats :
          /\ {"ts_first", "alt_min"} \subseteq DOMAIN report.videos[v]
          /\ report.videos[v].ts_first = <<"1", "0">>
          /\ report.videos[v].ts_last = <<"9">>
          /\ report.videos[v].alt_min = report.videos[v].alt_max

-----------------------------------------------------------------------------
(* add_health_index.py: generate_health_index                              *)
(*                                                                         *)
(* Latitude and longitude are held in units of 0.00001 degree, the altitude*)
(* in centimetres, the health in thousandths until it is rounded to        *)
(* hundredths.                                                             *)

Abs(x) == IF x < 0 THEN -x ELSE x

\* the integer square root, by bisection on lo..hi
RECURSIVE IsqrtIn(_, _, _)
IsqrtIn(n, lo, hi) ==
    IF lo >= hi THEN lo
    ELSE LET mid == (lo + hi + 1) \div 2
         IN IF mid * mid <= n THEN IsqrtIn(n, mid, hi) ELSE IsqrtIn(n, lo, mid - 1)

Isqrt(n) == IsqrtIn(n, 0, 46340)

\* math.sqrt(a**2 + b**2); beyond 16384 units the operands are taken in
\* thousands, which keeps the squares within 32 bits
Hypot(a, b) ==
    IF Abs(a) <= 16384 /\ Abs(b) <= 16384 THEN Isqrt(a * a + b * b)
    ELSE 1000 * Isqrt((a \div 1000) * (a \div 1000) + (b \div 1000) * (b \div 1000))

CenterLat == 5032900       \* center_lat = 50.329
CenterLon == 1193900       \* center_lon = 11.939

\* (mutation) each term is floored before the sum
SeedOf_FloorEach(lat, lon) == (Abs(lat) \div 10) + (Abs(lon) \div 10)

\* seed = int(abs(latitude * 10000) + abs(longitude * 10000))
SeedOf(lat, lon) == (Abs(lat) + Abs(lon)) \div 10

\* random.seed(seed): the state is the seed's, and the saved second Gaussian
\* value is dropped
Seeded(s) == [state |-> s, gauss_next |-> NoneNum]

\* The generator itself is the library's.  It stands here as a function of its
\* state: the two values one Box-Muller step yields, times sigma = 8, in
\* thousandths (a Python float Gaussian stays within 8.6 sigma), and the state
\* after the two draws of the step.
GaussFirst(state) == ((((state % 1361) * 211) % 1361) * 100) - 68000
GaussSecond(state) == (((((state + 977) % 1361) * 211) % 1361) * 100) - 68000
Advance(state) == ((state % 65521) * 31 + 7) % 65521

\* random.gauss(0, 8) on the generator g: the value and the generator after
gauss(g) ==
    IF g.gauss_next # NoneNum
    THEN [z |-> g.gauss_next.val, rng |-> [state |-> g.state, gauss_next |-> NoneNum]]
    ELSE [z |-> GaussFirst(g.state),
          rng |-> [state |-> Advance(g.state), gauss_next |-> Num(GaussSecond(g.state))]]

\* base_health = 85.0 - (sqrt(lat_diff**2 + lon_diff**2) * 111000 / 50.0):
\* 22.2 thousandths for each unit of distance
BaseHealth(lat, lon) ==
    LET h == Hypot(Abs(lat - CenterLat), Abs(lon - CenterLon))
    IN 85000 - ((h \div 10) * 222 + ((h % 10) * 222) \div 10)

\* altitude_bonus = 0; if relative_altitude: min(5.0, (relative_altitude - 1.5) * 2.0)
AltitudeBonus(alt) ==
    IF alt # NoneNum /\ alt.val # 0
    THEN (IF (alt.val - 150) * 20 < 5000 THEN (alt.val - 150) * 20 ELSE 5000)
    ELSE 0

\* (mutation) only the upper limit is applied
Clamp_UpperOnly(h) == IF h > 100000 THEN 100000 ELSE h

\* max(0.0, min(100.0, health))
Clamp(h) == IF h < 0 THEN 0 ELSE IF h > 100000 THEN 100000 ELSE h

\* round(health, 2): thousandths to hundredths, a tie to the even neighbour
Round2(h) ==
    LET q == h \div 10
        r == h % 10
    IN IF r > 5 \/ (r = 5 /\ q % 2 = 1) THEN q + 1 ELSE q

\* (mutation) the generator is not reseeded: the draw continues from g
generate_health_index_NoReseed(g, lat, lon, alt) ==
    LET drawn == gauss(g)
    IN [health |-> Round2(Clamp(BaseHealth(lat, lon) + drawn.z + AltitudeBonus(alt))),
        rng |-> drawn.rng, seed |-> SeedOf(lat, lon)]

\* generate_health_index(latitude, longitude, relative_altitude, ...) called
\* with the shared generator in state g: the value returned and the generator
\* after the call
generate_health_index(g, lat, lon, alt) ==
    LET drawn == gauss(Seeded(SeedOf(lat, lon)))
    IN [health |-> Round2(Clamp(BaseHealth(lat, lon) + drawn.z + AltitudeBonus(alt))),
        rng |-> drawn.rng, seed |-> SeedOf(lat, lon)]

-----------------------------------------------------------------------------
(* generate_health_index applied to coordinates and altitudes              *)

Latitudes == {5032900, 5032950, 5032955, 9000000}
Longitudes == {1193900, 1193956, -18000000}
Altitudes == {NoneNum, Num(0), Num(50), Num(150), Num(1000), Num(-100000)}

InitS ==
    /\ rng \in {[state |-> s, gauss_next |-> NoneNum] : s \in {0, 1}}
    /\ call = << >>
    /\ health = << >>
    /\ seed = << >>
    /\ first = << >>

GenerateHealthIndex ==
    /\ \E lat \in Latitudes, lon \in Longitudes, alt \in Altitudes :
          LET args == [latitude |-> lat, longitude |-> lon, relative_altitude |-> alt]
              ret == generate_health_index(rng, lat, lon, alt)
          IN /\ call' = args
             /\ health' = Num(ret.health)
             /\ seed' = Num(ret.seed)
             /\ rng' = ret.rng
             /\ first' = IF first = << >>
                         THEN [call |-> args, health |-> Num(ret.health), other |-> FALSE]
                         ELSE [first EXCEPT !.other = @ \/ args # first.call]
    /\ UNCHANGED <<varsX, varsF, varsC, varsLater>>

\* the other components are idle
InitScore == InitS /\ IdleX /\ IdleF /\ IdleC /\ IdleLater

SpecScore == InitScore /\ [][GenerateHealthIndex]_vars

-----------------------------------------------------------------------------
(* C10: the score is within 0..100 *)

\* C10: for every latitude, longitude and altitude, absent altitude and extreme
\* coordinates included, the score returned is between 0 and 100 (here in
\* hundredths).
C10_ScoreWithinBounds ==
    health # << >> => 0 <= health.val /\ health.val <= 10000

\* a call far from the centre, without altitude, returned 0; a call returned
\* 100; a call returned a value strictly between
C10_WitnessLow ==
    /\ health = Num(0) /\ call # << >>
    /\ Abs(call.latitude) = 9000000 /\ call.relative_altitude = NoneNum

C10_WitnessHigh == health = Num(10000)

C10_WitnessInside == health # << >> /\ 0 < health.val /\ health.val < 10000

-----------------------------------------------------------------------------
(* C11: the score does not depend on the calls before it *)

\* C11: a call with the arguments of the earliest call returns the value the
\* earliest call returned, whatever calls (and draws from the shared
\* generator) happened in between.
C11_SameArgumentsSameScore ==
    (first # << >> /\ call = first.call) => health = first.health

\* the earliest call is repeated after a call with other arguments, and the
\* value is not one the clamp would give to any draw
C11_Witness ==
    /\ first # << >> /\ first.other /\ call = first.call
    /\ 0 < health.val /\ health.val < 10000

-----------------------------------------------------------------------------
(* add_health_index.py: add_health_index_to_csv                            *)

\* float(row.get(name, 0) or 0): an empty or absent text counts as 0
FloatOrZero(t) == IF Truthy(t) THEN float(t) ELSE Num(0)

\* rel_alt = None; if row.get('relative_altitude'): try float(...) except: pass
RelAlt(t) == IF Truthy(t) THEN float(t) ELSE NoneNum

\* a float the model's arithmetic holds
IsFinite(x) == x # NoneNum /\ x # NaN /\ DOMAIN x = {"val"}

\* int(abs(latitude * 10000) + abs(longitude * 10000)) raises ValueError for
\* NaN and OverflowError for infinity, which a huge operand times 10000 is
SeedRaises(lat, lon) == ~IsFinite(lat) \/ ~IsFinite(lon)

\* the body of the try of `for row in reader` raises: float() a ValueError,
\* generate_health_index a ValueError or an OverflowError
RowRaises(row) ==
    \/ FloatOrZero(row.latitude) = NoneNum
    \/ FloatOrZero(row.longitude) = NoneNum
    \/ SeedRaises(FloatOrZero(row.latitude), FloatOrZero(row.longitude))

\* generate_health_index(lat, lon, rel_alt, ...) for the floats of a row:
\* thousandths of a degree become units of 0.00001, thousandths of a metre
\* centimetres
HealthOfRow(g, row) ==
    LET lat == FloatOrZero(row.latitude)
        lon == FloatOrZero(row.longitude)
        alt == RelAlt(row.relative_altitude)
    IN generate_health_index(g, lat.val * 100, lon.val * 100,
                             IF alt = NoneNum THEN NoneNum ELSE Num(alt.val \div 10))

\* row['health_index'] = str(health)
WithHealth(row, h) == ("health_index" :> h) @@ row

-----------------------------------------------------------------------------
(* The consolidated table handed to add_health_index_to_csv                *)

MaxHealthRows == 3   \* rows of the input table

HRow(idx, lat, lon, alt) ==
    [video_name |-> VideoA, frame_index |-> idx, timestamp |-> <<"0", "9">>,
     latitude |-> lat, longitude |-> lon, relative_altitude |-> alt,
     iso |-> <<"1", "0", "0">>]

HealthRowSet ==
    { HRow(<<"1">>, <<"5", "0", ".", "3", "2", "9">>, <<"1", "1", ".", "9", "3", "9">>,
           <<"1", ".", "5">>),
      HRow(<<"2">>, << >>, <<"1", "1", ".", "9">>, <<"0", ".", "0">>),
      HRow(<<"3">>, <<"x">>, <<"1", "1", ".", "9">>, <<"1", ".", "5">>),
      HRow(<<"4">>, <<"1", "e", "3", "0", "8">>, <<"1", "1", ".", "9">>, << >>),
      HRow(<<"5">>, <<"5", "0", ".", "1">>, <<"1", "1", ".", "9">>, <<"x">>) }

\* the input file: without a header line (fieldnames empty), or with the
\* header of the consolidated table and up to MaxHealthRows rows
HealthTables ==
    {[fieldnames |-> << >>, rows |-> << >>]}
    \cup { [fieldnames |-> Fieldnames, rows |-> rs] :
             rs \in UNION { [1..n -> HealthRowSet] : n \in 0..MaxHealthRows } }

InitH ==
    /\ input_csv \in HealthTables
    /\ hk = 1 /\ hrows = << >> /\ output_csv = << >>
    /\ pch = "open"

\* reader = csv.DictReader(f); if not fieldnames: print the error; return
OpenInvalid ==
    /\ pch = "open" /\ input_csv.fieldnames = << >>
    /\ pch' = "invalid"
    /\ UNCHANGED <<input_csv, hk, hrows, output_csv, varsX, varsF, varsC, varsS, varsG, varsR, varsP>>

\* new_fieldnames = list(fieldnames) + ['health_index']
OpenAndReadHeader ==
    /\ pch = "open" /\ input_csv.fieldnames # << >>
    /\ pch' = "loop"
    /\ UNCHANGED <<input_csv, hk, hrows, output_csv, varsX, varsF, varsC, varsS, varsG, varsR, varsP>>

\* one turn of `for row in reader` whose try raises: the row is reported and
\* skipped
SkipRow ==
    /\ pch = "loop" /\ hk <= Len(input_csv.rows)
    /\ RowRaises(input_csv.rows[hk])
    /\ hk' = hk + 1
    /\ UNCHANGED <<input_csv, hrows, output_csv, pch, varsX, varsF, varsC, varsS, varsG, varsR, varsP>>

\* one turn of `for row in reader` that reaches rows.append(row)
ScoreRow ==
    /\ pch = "loop" /\ hk <= Len(input_csv.rows)
    /\ ~RowRaises(input_csv.rows[hk])
    /\ LET ret == HealthOfRow(rng, input_csv.rows[hk])
       IN /\ hrows' = Append(hrows, WithHealth(input_csv.rows[hk], Num(ret.health)))
          /\ rng' = ret.rng
    /\ hk' = hk + 1
    /\ UNCHANGED <<input_csv, output_csv, pch, call, health, seed, first, varsX, varsF, varsC, varsG, varsR, varsP>>

\* writer.writeheader(); writer.writerows(rows), and the statistics printed
WriteOutput ==
    /\ pch = "loop" /\ hk > Len(input_csv.rows)
    /\ output_csv' = [fieldnames |-> input_csv.fieldnames \o <<"health_index">>,
                      rows |-> hrows]
    /\ pch' = "done"
    /\ UNCHANGED <<input_csv, hk, hrows, varsX, varsF, varsC, varsS, varsG, varsR, varsP>>

NextH == OpenInvalid \/ OpenAndReadHeader \/ SkipRow \/ ScoreRow \/ WriteOutput

\* the other components are idle; the shared generator is in some state
InitAddHealth == InitH /\ InitS /\ IdleX /\ IdleF /\ IdleC /\ IdleG /\ IdleR /\ IdleP

SpecAddHealth == InitAddHealth /\ [][NextH]_vars

-----------------------------------------------------------------------------
(* generate_analytical_map.py: create_interpolation_grid                   *)
(*                                                                         *)
(* Latitudes and longitudes are in units of 0.00001 degree and the scores  *)
(* in hundredths.  A lattice node is held by its coordinates times         *)
(* grid_size, which are whole numbers; squared distances are held times    *)
(* grid_size squared.                                                      *)

MaxDistance == 100      \* max_distance = 0.001
Epsilon == 1            \* distance < 0.00001
WeightScale == 100000   \* the weight 1 / distance**2 of a point one unit away

SeqMin(f) == Min({f[k] : k \in 1..Len(f)})
SeqMax(f) == Max({f[k] : k \in 1..Len(f)})

\* calculate_bounds(points); min() and max() raise ValueError on no points
calculate_bounds(ps) ==
    [min_lat |-> SeqMin([k \in 1..Len(ps) |-> ps[k].lat]),
     max_lat |-> SeqMax([k \in 1..Len(ps) |-> ps[k].lat]),
     min_lon |-> SeqMin([k \in 1..Len(ps) |-> ps[k].lon]),
     max_lon |-> SeqMax([k \in 1..Len(ps) |-> ps[k].lon])]

\* grid_lat = min_lat + i * lat_step, times grid_size
GridLat(b, gs, i) == b.min_lat * gs + i * (b.max_lat - b.min_lat)
GridLon(b, gs, j) == b.min_lon * gs + j * (b.max_lon - b.min_lon)

\* distance ** 2 from the node to the point, times grid_size ** 2
Dist2(nlat, nlon, p, gs) ==
    (nlat - p.lat * gs) * (nlat - p.lat * gs) + (nlon - p.lon * gs) * (nlon - p.lon * gs)

\* distance < max_distance
InRange(nlat, nlon, p, gs) == Dist2(nlat, nlon, p, gs) < (MaxDistance * gs) * (MaxDistance * gs)

\* distance < 0.00001
VeryClose(nlat, nlon, p, gs) == Dist2(nlat, nlon, p, gs) < (Epsilon * gs) * (Epsilon * gs)

\* weight = 1.0 / (distance ** power), in units of 1 / WeightScale
Weight(nlat, nlon, p, gs) == (WeightScale * gs * gs) \div Dist2(nlat, nlon, p, gs)

\* weighted_sum = 0.0; weight_sum = 0.0.  The weighted sum is held in two
\* parts, whole points of score and hundredths.
NoSums == [whole |-> 0, hundredths |-> 0, weight_sum |-> 0, direct |-> NoneNum]

\* the loop without its break: a later very close point replaces the score
RECURSIVE Accumulate_NoBreak(_, _, _, _, _, _)
Accumulate_NoBreak(ps, k, acc, nlat, nlon, gs) ==
    IF k > Len(ps) THEN acc
    ELSE IF ~InRange(nlat, nlon, ps[k], gs) THEN Accumulate_NoBreak(ps, k + 1, acc, nlat, nlon, gs)
    ELSE IF VeryClose(nlat, nlon, ps[k], gs)
    THEN Accumulate_NoBreak(ps, k + 1,
             [whole |-> 0, hundredths |-> 0, weight_sum |-> 1, direct |-> Num(ps[k].health)],
             nlat, nlon, gs)
    ELSE Accumulate_NoBreak(ps, k + 1, [acc EXCEPT !.weight_sum = @ + 1], nlat, nlon, gs)

\* (mutation) the first point within max_distance gives its score and ends
\* the loop
RECURSIVE Accumulate_FirstInRange(_, _, _, _, _, _)
Accumulate_FirstInRange(ps, k, acc, nlat, nlon, gs) ==
    IF k > Len(ps) THEN acc
    ELSE IF ~InRange(nlat, nlon, ps[k], gs)
    THEN Accumulate_FirstInRange(ps, k + 1, acc, nlat, nlon, gs)
    ELSE [whole |-> 0, hundredths |-> 0, weight_sum |-> 1, direct |-> Num(ps[k].health)]

\* `for point in points` from the k-th point on, the sums being acc: a very
\* close point gives its score and ends the loop
RECURSIVE Accumulate(_, _, _, _, _, _)
Accumulate(ps, k, acc, nlat, nlon, gs) ==
    IF k > Len(ps) THEN acc
    ELSE IF ~InRange(nlat, nlon, ps[k], gs) THEN Accumulate(ps, k + 1, acc, nlat, nlon, gs)
    ELSE IF VeryClose(nlat, nlon, ps[k], gs)
    THEN [whole |-> 0, hundredths |-> 0, weight_sum |-> 1, direct |-> Num(ps[k].health)]
    ELSE LET w == Weight(nlat, nlon, ps[k], gs)
         IN Accumulate(ps, k + 1,
                [whole |-> acc.whole + (ps[k].health \div 100) * w,
                 hundredths |-> acc.hundredths + (ps[k].health % 100) * w,
                 weight_sum |-> acc.weight_sum + w,
                 direct |-> NoneNum],
                nlat, nlon, gs)

\* n / d rounded to the nearest whole number, a tie to the even one
RoundDiv(n, d) ==
    LET q == n \div d
        r == n % d
    IN IF 2 * r > d \/ (2 * r = d /\ q % 2 = 1) THEN q + 1 ELSE q

\* (mutation) the weighted sum is not divided by the sum of the weights
Interpolated_NotNormalised(acc) ==
    IF acc.direct # NoneNum THEN acc.direct.val
    ELSE 100 * (acc.whole \div WeightScale) + RoundDiv(acc.hundredths, WeightScale)

\* round(weighted_sum / weight_sum, 2)
Interpolated(acc) ==
    IF acc.direct # NoneNum THEN acc.direct.val
    ELSE 100 * (acc.whole \div acc.weight_sum)
         + RoundDiv(100 * (acc.whole % acc.weight_sum) + acc.hundredths, acc.weight_sum)

\* a dense grid: a node with no point in range is given the value 0
GridNode_Dense(ps, gs, i, j, out) ==
    LET b == calculate_bounds(ps)
        nlat == GridLat(b, gs, i)
        nlon == GridLon(b, gs, j)
        acc == Accumulate(ps, 1, NoSums, nlat, nlon, gs)
    IN Append(out, [lat |-> nlat, lon |-> nlon,
                    health |-> IF acc.weight_sum > 0 THEN Interpolated(acc) ELSE 0])

\* the body of the two loops for the node (i, j): the list grid_points after it
GridNode(ps, gs, i, j, out) ==
    LET b == calculate_bounds(ps)
        nlat == GridLat(b, gs, i)
        nlon == GridLon(b, gs, j)
        acc == Accumulate(ps, 1, NoSums, nlat, nlon, gs)
    IN IF acc.weight_sum > 0
       THEN Append(out, [lat |-> nlat, lon |-> nlon, health |-> Interpolated(acc)])
       ELSE out

\* for i in range(grid_size + 1): for j in range(grid_size + 1): the list
\* after the nodes from number n on (n = i * (grid_size + 1) + j)
RECURSIVE GridFrom(_, _, _, _)
GridFrom(ps, gs, n, out) ==
    IF n >= (gs + 1) * (gs + 1) THEN out
    ELSE GridFrom(ps, gs, n + 1, GridNode(ps, gs, n \div (gs + 1), n % (gs + 1), out))

create_interpolation_grid(ps, gs) == GridFrom(ps, gs, 0, << >>)

-----------------------------------------------------------------------------
(* The point sets handed to create_interpolation_grid                      *)

MaxPoints == 3   \* points in the list

PointSet ==
    { [lat |-> c[1], lon |-> c[2], health |-> h] :
        c \in { <<0, 0>>, <<0, 1>>, <<50, 0>>, <<300, 300>> }, h \in {7000, 3025} }

PointLists == UNION { [1..n -> PointSet] : n \in 0..MaxPoints }

InitG ==
    /\ points \in PointLists
    /\ grid_size \in {1, 2}
    /\ grid_points = << >>
    /\ pcg = "call"

\* create_interpolation_grid(points, grid_size) returns grid_points
ReturnGrid ==
    /\ pcg = "call" /\ points # << >>
    /\ grid_points' = create_interpolation_grid(points, grid_size)
    /\ pcg' = "returned"
    /\ UNCHANGED <<points, grid_size, varsX, varsF, varsC, varsS, varsH, varsR, varsP>>

\* calculate_bounds raises ValueError: min() of an empty list
RaiseOnNoPoints ==
    /\ pcg = "call" /\ points = << >>
    /\ pcg' = "raised"
    /\ UNCHANGED <<points, grid_size, grid_points, varsX, varsF, varsC, varsS, varsH, varsR, varsP>>

NextG == ReturnGrid \/ RaiseOnNoPoints

\* the other components are idle
InitGrid == InitG /\ IdleX /\ IdleF /\ IdleC /\ IdleS /\ IdleH /\ IdleR /\ IdleP

SpecGrid == InitGrid /\ [][NextG]_vars

-----------------------------------------------------------------------------
(* The CSV files between the stages: csv.DictWriter on a file opened with  *)
(* newline='', csv.DictReader on a file opened without it                  *)

Quote == "\""

\* the writer quotes a field holding the delimiter, the quote character or a
\* character of a line end
NeedsQuotes(v) == \E k \in 1..Len(v) : v[k] \in {",", Quote, "\r", "\n"}

\* the characters of v, each quote character doubled
RECURSIVE Doubled(_)
Doubled(v) ==
    IF v = << >> THEN << >>
    ELSE (IF v[1] = Quote THEN <<Quote, Quote>> ELSE <<v[1]>>) \o Doubled(Tail(v))

\* one field as the writer writes it; None is written as ''
WriteField(v) ==
    IF v = None THEN << >>
    ELSE IF NeedsQuotes(v) THEN <<Quote>> \o Doubled(v) \o <<Quote>>
    ELSE v

\* the fields from the k-th on, with the delimiter between them
RECURSIVE JoinFields(_, _)
JoinFields(vals, k) ==
    IF k > Len(vals) THEN << >>
    ELSE WriteField(vals[k]) \o (IF k < Len(vals) THEN <<",">> ELSE << >>)
             \o JoinFields(vals, k + 1)

\* writer.writerow: a record that would be an empty line is written as "",
\* and the line ends with \r\n
WriteRow(vals) ==
    (IF JoinFields(vals, 1) = << >> THEN <<Quote, Quote>> ELSE JoinFields(vals, 1)) \o <<"\r", "\n">>

\* output_row = {col: row.get(col, '') for col in fieldnames}, as a list
OutputValues(fieldnames, row) ==
    [k \in 1..Len(fieldnames) |->
        IF fieldnames[k] \in DOMAIN row THEN row[fieldnames[k]] ELSE << >>]

\* writer.writerow(output_row) for the rows from the k-th on
RECURSIVE WriteRows(_, _, _)
WriteRows(fieldnames, rows, k) ==
    IF k > Len(rows) THEN << >>
    ELSE WriteRow(OutputValues(fieldnames, rows[k])) \o WriteRows(fieldnames, rows, k + 1)

\* writer.writeheader() and the loop over all_rows
WriteCsvText(fieldnames, rows) ==
    WriteRow([k \in 1..Len(fieldnames) |-> <<fieldnames[k]>>]) \o WriteRows(fieldnames, rows, 1)

\* open(csv_path, 'r'): \r\n and \r are read as \n
RECURSIVE UniversalNewlines(_)
UniversalNewlines(t) ==
    IF t = << >> THEN << >>
    ELSE IF t[1] = "\r"
    THEN <<"\n">> \o UniversalNewlines(IF Len(t) > 1 /\ t[2] = "\n" THEN SubSeq(t, 3, Len(t)) ELSE Tail(t))
    ELSE <<t[1]>> \o UniversalNewlines(Tail(t))

\* csv.reader over the lines of t, in which every line end is \n.  st is the
\* parser's state, field the field being read, row the fields of the record
\* being read, rows the records read.  A line end outside quotes ends the
\* record (an empty line gives the record []); at the end of the text an
\* unfinished record is returned as far as it was read.
RECURSIVE ReadRecords(_, _, _, _, _, _)
ReadRecords(t, i, st, field, row, rows) ==
    IF i > Len(t)
    THEN IF st = "START_RECORD" THEN rows ELSE Append(rows, Append(row, field))
    ELSE LET c == t[i] IN
      CASE st = "START_RECORD" /\ c = "\n" ->
             ReadRecords(t, i + 1, "START_RECORD", << >>, << >>, Append(rows, << >>))
        [] st \in {"START_RECORD", "START_FIELD"} /\ c = Quote ->
             ReadRecords(t, i + 1, "IN_QUOTED_FIELD", field, row, rows)
        [] st = "IN_QUOTED_FIELD" /\ c = Quote ->
             ReadRecords(t, i + 1, "QUOTE_IN_QUOTED_FIELD", field, row, rows)
        [] st = "IN_QUOTED_FIELD" /\ c # Quote ->
             ReadRecords(t, i + 1, "IN_QUOTED_FIELD", Append(field, c), row, rows)
        [] st = "QUOTE_IN_QUOTED_FIELD" /\ c = Quote ->
             ReadRecords(t, i + 1, "IN_QUOTED_FIELD", Append(field, c), row, rows)
        [] st # "IN_QUOTED_FIELD" /\ ~(st = "START_RECORD" /\ c = "\n") /\ c = "\n" ->
             ReadRecords(t, i + 1, "START_RECORD", << >>, << >>, Append(rows, Append(row, field)))
        [] st # "IN_QUOTED_FIELD" /\ c = "," ->
             ReadRecords(t, i + 1, "START_FIELD", << >>, Append(row, field), rows)
        [] OTHER ->
             ReadRecords(t, i + 1, "IN_FIELD", Append(field, c), row, rows)

\* csv.DictReader: a record shorter than the header has None for the
\* missing fields, a longer one has what is left over under the key None
DictOf(fieldnames, row) ==
    [col \in {fieldnames[k] : k \in 1..Len(fieldnames)} |->
        LET last == Max({n \in 1..Len(fieldnames) : fieldnames[n] = col})
        IN IF last <= Len(row) THEN row[last] ELSE None]
    @@ (IF Len(row) > Len(fieldnames)
        THEN ("None" :> SubSeq(row, Len(fieldnames) + 1, Len(row)))
        ELSE << >>)

\* the records after the header, the empty ones skipped
RECURSIVE DictRows(_, _, _)
DictRows(fieldnames, recs, k) ==
    IF k > Len(recs) THEN << >>
    ELSE (IF recs[k] = << >> THEN << >> ELSE <<DictOf(fieldnames, recs[k])>>)
             \o DictRows(fieldnames, recs, k + 1)

\* the first record that is not empty is the header; a column name is one
\* character of the text
RECURSIVE DictReader(_, _)
DictReader(recs, k) ==
    IF k > Len(recs) THEN << >>
    ELSE IF recs[k] = << >> THEN DictReader(recs, k + 1)
    ELSE DictRows([n \in 1..Len(recs[k]) |-> recs[k][n][1]], recs, k + 1)

\* read_csv_file(csv_path) on a file with the characters t
read_csv_file(t) ==
    DictReader(ReadRecords(UniversalNewlines(t), 1, "START_RECORD", << >>, << >>, << >>), 1)

-----------------------------------------------------------------------------
(* The tables written and read back                                        *)

MaxRecords == 2   \* rows in the table

\* the columns of the table: the consolidated table starts with video_name,
\* which is the name of a directory; iso stands for the other columns
Columns == <<"video_name", "iso">>

\* texts: empty, plain, with a comma, a quote, a line feed, a carriage return
FieldTexts ==
    { << >>, <<"A">>, <<"1", ",", "5">>, <<Quote, "A">>, <<"A", "\n", "B">>, <<"A", "\r", "B">> }

\* the rows of all_rows: iso can be None (a short line of a source file)
TableRows ==
    { [video_name |-> v, iso |-> x] : v \in FieldTexts \ {<< >>}, x \in FieldTexts \cup {None} }

Tables ==
    { [fieldnames |-> f, rows |-> rs] :
        f \in {Columns}, rs \in UNION { [1..n -> TableRows] : n \in 1..MaxRecords } }

InitR ==
    /\ out_table \in Tables
    /\ csv_file = << >>
    /\ read_rows = << >>
    /\ pcr = "write"

\* with open(output_file, 'w', newline='') ...: the header and the rows
WriteCsv ==
    /\ pcr = "write"
    /\ csv_file' = WriteCsvText(out_table.fieldnames, out_table.rows)
    /\ pcr' = "read"
    /\ UNCHANGED <<out_table, read_rows, varsX, varsF, varsC, varsS, varsH, varsG, varsP>>

\* a later stage reads the file with read_csv_file
ReadCsv ==
    /\ pcr = "read"
    /\ read_rows' = read_csv_file(csv_file)
    /\ pcr' = "done"
    /\ UNCHANGED <<out_table, csv_file, varsX, varsF, varsC, varsS, varsH, varsG, varsP>>

NextR == WriteCsv \/ ReadCsv

\* the other components are idle
InitRoundTrip == InitR /\ IdleX /\ IdleF /\ IdleC /\ IdleS /\ IdleH /\ IdleG /\ IdleP

SpecRoundTrip == InitRoundTrip /\ [][NextR]_vars

-----------------------------------------------------------------------------
(* C15: write and read back                                                *)

\* None and '' are one absent field
AbsentAsEmpty(v) == IF v = None THEN << >> ELSE v

\* C15: writing a record table with the CSV writer and reading it back with
\* read_csv_file yields the same records field by field, None and the empty
\* text being identified.
C15_RoundTrip ==
    pcr = "done" =>
        /\ Len(read_rows) = Len(out_table.rows)
        /\ \A k \in 1..Len(read_rows) :
              /\ DOMAIN read_rows[k] = {out_table.fieldnames[c] : c \in 1..Len(out_table.fieldnames)}
              /\ \A c \in 1..Len(out_table.fieldnames) :
                    AbsentAsEmpty(read_rows[k][out_table.fieldnames[c]])
                        = AbsentAsEmpty(out_table.rows[k][out_table.fieldnames[c]])

-----------------------------------------------------------------------------
(* The stages run one after another, each reading what an earlier one wrote *)
(*                                                                          *)
(* A frame of the .SRT file is "fix" (coordinates of a place), "zero"       *)
(* (latitude 0 and longitude 0) or "bad" (no coordinates).  An artifact on  *)
(* disk is Absent or the list of its rows.                                  *)

MaxRuns == 4     \* invocations of stages
MaxFrames == 2   \* frames in the .SRT file

NoFile == <<"no file">>
Absent == <<"absent">>

Artifacts == {"metadata", "consolidated", "with_health", "map"}

\* the elements of list that are in the set keep, in order
RECURSIVE Keep(_, _)
Keep(list, keep) ==
    IF list = << >> THEN << >>
    ELSE (IF list[1] \in keep THEN <<list[1]>> ELSE << >>) \o Keep(Tail(list), keep)

\* process_all_srt_files: a file with frames gets its _metadata.csv
process_all_srt_files(d, frames) ==
    IF frames = NoFile
    THEN [disk |-> d, said |-> "Nenhum arquivo .SRT encontrado"]
    ELSE IF Keep(frames, {"fix", "zero"}) # << >>
    THEN [disk |-> [d EXCEPT !.metadata = Keep(frames, {"fix", "zero"})],
          said |-> "Processamento concluido"]
    ELSE [disk |-> d, said |-> "Processamento concluido"]

\* create_consolidated_csv
create_consolidated_csv(d) ==
    IF d.metadata = Absent
    THEN [disk |-> d, said |-> "Nenhum arquivo CSV encontrado em extracted_metadata/"]
    ELSE IF d.metadata = << >>
    THEN [disk |-> d, said |-> "Nenhum dado foi carregado"]
    ELSE [disk |-> [d EXCEPT !.consolidated = d.metadata], said |-> "Estatisticas salvas"]

\* add_health_index.main without `if not input_csv.exists()`
add_health_main_NoExistsCheck(d) ==
    [disk |-> [d EXCEPT !.with_health = IF d.consolidated = Absent THEN << >> ELSE d.consolidated],
     said |-> "Processamento concluido"]

\* add_health_index.main
add_health_main(d) ==
    IF d.consolidated = Absent
    THEN [disk |-> d,
          said |-> "Execute primeiro extract_srt_metadata.py e create_consolidated_csv.py"]
    ELSE [disk |-> [d EXCEPT !.with_health = d.consolidated], said |-> "Processamento concluido"]

\* generate_analytical_map.main; load_metadata_with_health leaves out the
\* rows with latitude 0 and longitude 0
map_main(d) ==
    IF d.with_health = Absent
    THEN [disk |-> d, said |-> "Execute primeiro: python3 add_health_index.py"]
    ELSE IF Keep(d.with_health, {"fix"}) = << >>
    THEN [disk |-> d, said |-> "Nenhum ponto encontrado"]
    ELSE [disk |-> [d EXCEPT !.map = Keep(d.with_health, {"fix"})], said |-> "Processamento concluido"]

SrtFiles == {NoFile} \cup UNION { [1..n -> {"fix", "zero", "bad"}] : n \in 0..MaxFrames }

InitP ==
    /\ srt \in SrtFiles
    /\ files = [a \in Artifacts |-> Absent]
    /\ said = << >>
    /\ runs = 0
    /\ seen = [a \in Artifacts |-> "not run"]

\* python3 extract_srt_metadata.py
RunExtract ==
    /\ runs < MaxRuns
    /\ files' = process_all_srt_files(files, srt).disk
    /\ said' = <<"extract_srt_metadata.py", process_all_srt_files(files, srt).said>>
    /\ seen' = [seen EXCEPT !.metadata = IF srt = NoFile THEN "absent" ELSE "present"]
    /\ runs' = runs + 1
    /\ UNCHANGED <<srt, varsX, varsF, varsC, varsS, varsH, varsG, varsR>>

\* python3 create_consolidated_csv.py
RunConsolidate ==
    /\ runs < MaxRuns
    /\ files' = create_consolidated_csv(files).disk
    /\ said' = <<"create_consolidated_csv.py", create_consolidated_csv(files).said>>
    /\ seen' = [seen EXCEPT !.consolidated = IF files.metadata = Absent THEN "absent" ELSE "present"]
    /\ runs' = runs + 1
    /\ UNCHANGED <<srt, varsX, varsF, varsC, varsS, varsH, varsG, varsR>>

\* python3 add_health_index.py
RunAddHealth ==
    /\ runs < MaxRuns
    /\ files' = add_health_main(files).disk
    /\ said' = <<"add_health_index.py", add_health_main(files).said>>
    /\ seen' = [seen EXCEPT !.with_health = IF files.consolidated = Absent THEN "absent" ELSE "present"]
    /\ runs' = runs + 1
    /\ UNCHANGED <<srt, varsX, varsF, varsC, varsS, varsH, varsG, varsR>>

\* python3 generate_analytical_map.py
RunMap ==
    /\ runs < MaxRuns
    /\ files' = map_main(files).disk
    /\ said' = <<"generate_analytical_map.py", map_main(files).said>>
    /\ seen' = [seen EXCEPT !.map = IF files.with_health = Absent THEN "absent" ELSE "present"]
    /\ runs' = runs + 1
    /\ UNCHANGED <<srt, varsX, varsF, varsC, varsS, varsH, varsG, varsR>>

NextP == RunExtract \/ RunConsolidate \/ RunAddHealth \/ RunMap

\* the other components are idle
InitStages == InitP /\ IdleX /\ IdleF /\ IdleC /\ IdleS /\ IdleH /\ IdleG /\ IdleR

SpecStages == InitStages /\ [][NextP]_vars

-----------------------------------------------------------------------------
(* C16: a later stage without its input says which stage to run first      *)

\* C16: scoring or the map stage invoked while its upstream artifact does
\* not exist prints which stage must run first and writes no artifact; so
\* the scored table exists only if the consolidated table existed when
\* scoring last ran, and the map only if the scored table existed when the
\* map stage last ran.
C16_MissingInputIsReportedAndNothingWritten ==
    /\ (seen.with_health = "absent" => files.with_health = Absent)
    /\ (seen.map = "absent" => files.map = Absent)
    /\ ((said # << >> /\ said[1] = "add_health_index.py" /\ seen.with_health = "absent")
            => said[2] = "Execute primeiro extract_srt_metadata.py e create_consolidated_csv.py")
    /\ ((said # << >> /\ said[1] = "generate_analytical_map.py" /\ seen.map = "absent")
            => said[2] = "Execute primeiro: python3 add_health_index.py")
    /\ (files.with_health # Absent => seen.with_health = "present")
    /\ (files.map # Absent => seen.map = "present")

\* the map stage has just reported the missing scored table, after scoring
\* reported the missing consolidated table and wrote nothing
C16_Witness ==
    /\ said = <<"generate_analytical_map.py", "Execute primeiro: python3 add_health_index.py">>
    /\ seen.with_health = "absent" /\ seen.map = "absent"
    /\ files.with_health = Absent /\ files.map = Absent

\* the whole pipeline ran in order and the map exists
C16_WitnessMap ==
    /\ files.map # Absent /\ seen.map = "present" /\ seen.with_health = "present"

-----------------------------------------------------------------------------
(* C13: a node very close to a point reports that point's score            *)

\* the lattice indices
NodeIndices == 0..grid_size

\* the node (i, j) is within 0.00001 of the k-th point
NodeVeryClose(i, j, k) ==
    VeryClose(GridLat(calculate_bounds(points), grid_size, i),
              GridLon(calculate_bounds(points), grid_size, j), points[k], grid_size)

\* the node (i, j) is within max_distance of the k-th point
NodeInRange(i, j, k) ==
    InRange(GridLat(calculate_bounds(points), grid_size, i),
            GridLon(calculate_bounds(points), grid_size, j), points[k], grid_size)

\* the entries of grid_points at the coordinates of the node (i, j)
EntriesOf(i, j) ==
    { n \in 1..Len(grid_points) :
        /\ grid_points[n].lat = GridLat(calculate_bounds(points), grid_size, i)
        /\ grid_points[n].lon = GridLon(calculate_bounds(points), grid_size, j) }

\* the node (i, j) is in grid_points, with the value h
ReportedWith(i, j, h) ==
    /\ EntriesOf(i, j) # {}
    /\ \A n \in EntriesOf(i, j) : grid_points[n].health = h

\* C13 as stated: a lattice node within epsilon of an input point whose
\* score is 70.0 is reported with exactly 70.0, whatever other points lie
\* nearby and whatever their position in the input order.
C13_NodeAtA70PointReports70 ==
    pcg = "returned" =>
        \A i \in NodeIndices, j \in NodeIndices :
            (\E k \in 1..Len(points) : points[k].health = 7000 /\ NodeVeryClose(i, j, k))
                => ReportedWith(i, j, 7000)

\* C13 amended: a lattice node within epsilon of input points is reported
\* with exactly the score of the first of those points in input order,
\* whatever other points lie within the influence radius; so it reports
\* exactly 70.0 when that first point's score is 70.0.
C13_NodeReportsFirstVeryClosePoint ==
    pcg = "returned" =>
        \A i \in NodeIndices, j \in NodeIndices : \A k \in 1..Len(points) :
            (NodeVeryClose(i, j, k) /\ \A m \in 1..(k - 1) : ~NodeVeryClose(i, j, m))
                => ReportedWith(i, j, points[k].health)

\* a node whose first very close point has score 70.0, after a point in
\* range with another score and before a very close point with another score
C13_Witness ==
    /\ pcg = "returned"
    /\ \E i \in NodeIndices, j \in NodeIndices : \E a, k, m \in 1..Len(points) :
          /\ a < k /\ k < m
          /\ NodeInRange(i, j, a) /\ ~NodeVeryClose(i, j, a) /\ points[a].health # 7000
          /\ NodeVeryClose(i, j, k) /\ points[k].health = 7000
          /\ NodeVeryClose(i, j, m) /\ points[m].health # 7000
          /\ ReportedWith(i, j, 7000)

-----------------------------------------------------------------------------
(* C14: the grid is sparse                                                 *)

\* the nodes (i, j) with at least one point within max_distance
NodesInRange ==
    { n \in NodeIndices \X NodeIndices : \E k \in 1..Len(points) : NodeInRange(n[1], n[2], k) }

\* C14: a lattice node appears in the result if and only if at least one
\* input point lies within the influence radius of it; a node with no point
\* in range is omitted, and the result has no entry besides the nodes in
\* range.
C14_NodePresentIffPointInRange ==
    pcg = "returned" =>
        /\ \A i \in NodeIndices, j \in NodeIndices :
              EntriesOf(i, j) # {} <=> \E k \in 1..Len(points) : NodeInRange(i, j, k)
        /\ \A n \in 1..Len(grid_points) :
              \E i \in NodeIndices, j \in NodeIndices : n \in EntriesOf(i, j)
        /\ Len(grid_points) = Cardinality(NodesInRange)

\* a grid with a node in range of a point and a node in range of none
C14_Witness ==
    /\ pcg = "returned"
    /\ \E i \in NodeIndices, j \in NodeIndices : EntriesOf(i, j) = {}
    /\ \E i \in NodeIndices, j \in NodeIndices : EntriesOf(i, j) # {}

-----------------------------------------------------------------------------
(* C18: the altitude bonus                                                 *)

\* min(5.0, (altitude - 1.5) * 2.0) for every altitude that is present
BonusWhenPresent(alt) ==
    IF alt = NoneNum THEN 0
    ELSE IF (alt.val - 150) * 20 < 5000 THEN (alt.val - 150) * 20 ELSE 5000

\* C18: whenever the altitude is present (any number, 0.0 and values below
\* 1.5 included), min(5.0, (altitude - 1.5) * 2.0) is added to the score
\* before clamping; only an absent altitude contributes no bonus.
C18_BonusForEveryPresentAltitude ==
    call # << >> =>
        health = Num(Round2(Clamp(BaseHealth(call.latitude, call.longitude)
                                  + gauss(Seeded(SeedOf(call.latitude, call.longitude))).z
                                  + BonusWhenPresent(call.relative_altitude))))

-----------------------------------------------------------------------------
(* C19: the seed                                                           *)

\* C19 as stated: the seed is floor(|latitude| * 10000) + floor(|longitude|
\* * 10000), each term floored before the sum.
C19_SeedIsSumOfFloors ==
    call # << >> =>
        seed = Num((Abs(call.latitude) \div 10) + (Abs(call.longitude) \div 10))

\* C19 amended: the seed is floor(|latitude * 10000| + |longitude * 10000|),
\* the two terms added before the one floor.
C19_SeedIsFloorOfSum ==
    call # << >> =>
        /\ seed.val * 10 <= Abs(call.latitude) + Abs(call.longitude)
        /\ Abs(call.latitude) + Abs(call.longitude) < (seed.val + 1) * 10

\* a call whose two terms have fractions that add up to more than one
C19_Witness ==
    /\ call # << >>
    /\ (Abs(call.latitude) % 10) + (Abs(call.longitude) % 10) >= 10
    /\ seed = Num(622691)

-----------------------------------------------------------------------------
(* C20: the metadata-tag line is the first line with [ : ]                 *)

\* the lines of the block that contain all three of [ : ]
TagLines(ls) ==
    { k \in 1..Len(ls) : Contains(ls[k], "[") /\ Contains(ls[k], ":") /\ Contains(ls[k], "]") }

\* the record's tag values are those of the line
TagsFrom(fd, line) ==
    LET m == parse_metadata_line(line)
    IN /\ fd.iso = m.iso /\ fd.shutter = m.shutter /\ fd.aperture = m.fnum /\ fd.ev = m.ev
       /\ fd.color_mode = m.color_md /\ fd.focal_length = m.focal_len
       /\ fd.latitude = m.latitude /\ fd.longitude = m.longitude
       /\ fd.relative_altitude = m.rel_alt /\ fd.absolute_altitude = m.abs_alt
       /\ fd.color_temperature = m.ct

\* C20: the metadata-tag line is the first line of the block with all three
\* of [ : ]; every tag value of the record, latitude and longitude included,
\* is taken from that line only, and a block whose first such line lacks
\* latitude or longitude is rejected even if a later line has them.
C20_TagsFromFirstTagLineOnly ==
    pcx = "done" =>
        /\ TagLines(lines) = {} => frame = NoneFrame
        /\ TagLines(lines) # {} =>
              LET line == lines[Min(TagLines(lines))]
              IN /\ frame # NoneFrame => TagsFrom(frame, line)
                 /\ (~Truthy(parse_metadata_line(line).latitude)
                        \/ ~Truthy(parse_metadata_line(line).longitude)) => frame = NoneFrame

\* a block with a counter whose first tag line has no longitude and whose
\* later tag line has latitude and longitude has been rejected
C20_Witness ==
    /\ pcx = "done" /\ frame = NoneFrame /\ HasCounter(lines)
    /\ \E a, b \in TagLines(lines) :
          /\ a = Min(TagLines(lines)) /\ a < b
          /\ ~Truthy(parse_metadata_line(lines[a]).longitude)
          /\ Truthy(parse_metadata_line(lines[b]).latitude)
          /\ Truthy(parse_metadata_line(lines[b]).longitude)

\* a record whose block has a later tag line with tags the first one lacks
C20_WitnessLaterTagsIgnored ==
    /\ pcx = "done" /\ frame # NoneFrame /\ frame.iso = None
    /\ \E b \in TagLines(lines) :
          b > Min(TagLines(lines)) /\ Truthy(parse_metadata_line(lines[b]).iso)

-----------------------------------------------------------------------------
(* C17: an empty source gives an empty result                              *)

\* C17: a point set with no points handed to create_interpolation_grid
\* produces an empty grid reported to the caller, not an exception (as an
\* empty file or table does at the stages before it).
C17_EmptySourceGivesEmptyResult ==
    (points = << >> /\ pcg \in {"returned", "raised"})
        => (pcg = "returned" /\ grid_points = << >>)

-----------------------------------------------------------------------------
(* C21: a block without a tag line                                         *)

\* C21: a block in which no line contains all three of [ : ] yields no
\* record: extract_frame_info returns None, with or without a counter line
\* or a timestamp in the block.
C21_NoTagLineNoRecord ==
    (pcx = "done" /\ TagLines(lines) = {}) => frame = NoneFrame

\* a block with a counter line and a timestamp and no tag line returned None
C21_Witness ==
    /\ pcx = "done" /\ TagLines(lines) = {} /\ frame = NoneFrame
    /\ HasCounter(lines)
    /\ \E k \in 1..Len(lines) : TimestampSearch(lines[k]) # None

-----------------------------------------------------------------------------
(* C22: the first counter and the first timestamp                          *)

CounterLines(ls) == {k \in 1..Len(ls) : FrameCntSearch(ls[k]) # None}
TimestampLines(ls) == {k \in 1..Len(ls) : TimestampSearch(ls[k]) # None}

\* C22: the frame_index of a record is the counter value of the first line
\* that matches the counter tag and its timestamp the first match of the
\* timestamp pattern in line order; a later match never replaces the first,
\* and a block without a timestamp is not rejected for it: its record has
\* no timestamp.
C22_FirstCounterFirstTimestamp ==
    pcx = "done" =>
        /\ frame # NoneFrame =>
              /\ CounterLines(lines) # {}
              /\ frame.frame_index = FrameCntSearch(lines[Min(CounterLines(lines))])
              /\ frame.timestamp =
                    IF TimestampLines(lines) = {} THEN None
                    ELSE TimestampSearch(lines[Min(TimestampLines(lines))])
        /\ (HasCounter(lines) /\ LatLonExtracted(lines) /\ TimestampLines(lines) = {})
              => frame # NoneFrame

\* a record of a block with two timestamps that differ
C22_Witness ==
    /\ pcx = "done" /\ frame # NoneFrame
    /\ \E a, b \in TimestampLines(lines) :
          a < b /\ TimestampSearch(lines[a]) # TimestampSearch(lines[b])

\* a record of a block with two counters that differ
C22_WitnessCounters ==
    /\ pcx = "done" /\ frame # NoneFrame
    /\ \E a, b \in CounterLines(lines) :
          a < b /\ FrameCntSearch(lines[a]) # FrameCntSearch(lines[b])

\* a record of a block without a timestamp
C22_WitnessNoTimestamp ==
    pcx = "done" /\ frame # NoneFrame /\ TimestampLines(lines) = {} /\ frame.timestamp = None

-----------------------------------------------------------------------------
(* C23: each tag is extracted on its own                                   *)

TagKeys ==
    {"iso", "shutter", "fnum", "ev", "color_md", "focal_len", "latitude", "longitude",
     "rel_alt", "abs_alt", "ct"}

\* the text before the group, the class of the group and the text after it
\* in the pattern of the tag
PatternOf(key) ==
    CASE key = "rel_alt" -> [pre |-> <<"[", key, ":">>, cls |-> "d.", post |-> << >>]
      [] key = "abs_alt" -> [pre |-> <<key, ":">>, cls |-> "d.", post |-> <<"]">>]
      [] key \in {"iso", "ct"} -> [pre |-> <<"[", key, ":">>, cls |-> "d", post |-> <<"]">>]
      [] key \in {"shutter", "color_md"} -> [pre |-> <<"[", key, ":">>, cls |-> "^]", post |-> <<"]">>]
      [] key = "ev" -> [pre |-> <<"[", key, ":">>, cls |-> "-d", post |-> <<"]">>]
      [] OTHER -> [pre |-> <<"[", key, ":">>, cls |-> "d.", post |-> <<"]">>]

\* what the tag's own pattern finds in the line
OwnMatch(key, line) == re_search(line, PatternOf(key).pre, PatternOf(key).cls, PatternOf(key).post)

\* C23: parse_metadata_line extracts each named tag independently: the
\* result has every key of the fixed tag set, and the value of a key is what
\* that key's own pattern finds in the line (absent when it finds nothing),
\* whatever the other tags of the line are.
C23_EachTagOnItsOwn ==
    (pcx = "done" /\ TagLines(lines) # {}) =>
        LET m == parse_metadata_line(MetadataLine(lines))
        IN /\ DOMAIN m = TagKeys
           /\ \A key \in TagKeys : m[key] = OwnMatch(key, MetadataLine(lines))

\* a tag line whose latitude tag is malformed and whose longitude is extracted
C23_Witness ==
    /\ pcx = "done" /\ TagLines(lines) # {}
    /\ Contains(MetadataLine(lines), "latitude")
    /\ parse_metadata_line(MetadataLine(lines)).latitude = None
    /\ parse_metadata_line(MetadataLine(lines)).longitude = Lon11

-----------------------------------------------------------------------------
(* C24: the sort changes the order only                                    *)

\* how often x is in the list
Count(list, x) == Cardinality({k \in 1..Len(list) : list[k] = x})

\* a and b hold the same elements the same number of times
SameBag(a, b) ==
    /\ Len(a) = Len(b)
    /\ \A k \in 1..Len(a) : Count(a, a[k]) = Count(b, a[k])

\* all_rows before the sort: the rows of the files as they were loaded
RowsLoaded == LoadRows(sorted_paths(csv_files), << >>)

\* C24: sorting does not change stored values: a record whose frame_index
\* is missing or not an integer is ordered as if it were zero, and the
\* frame_index written to the merged table is the original value; no other
\* field of any record is changed by the sort.
C24_SortKeepsValues ==
    pcc \in {"written", "done"} =>
        /\ SameBag(all_rows, RowsLoaded)
        /\ SameBag(table, [k \in 1..Len(RowsLoaded) |-> OutputRow(RowsLoaded[k])])
        /\ \A k \in 1..Len(table) : table[k] = OutputRow(all_rows[k])

\* a record without frame_index and one with a non-integer frame_index
\* were written, the first of them before a record with a positive index
\* that was loaded before it
C24_Witness ==
    /\ pcc = "done"
    /\ \E i, j \in 1..Len(table) :
          /\ table[i].frame_index = << >> /\ table[j].frame_index = <<"1", ".", "5">>
    /\ \E i, j \in 1..Len(table) :
          /\ i < j /\ table[i].frame_index = << >> /\ table[i].video_name = table[j].video_name
          /\ TableKey(table[j])[2] > 0
          /\ \E a, b \in 1..Len(RowsLoaded) :
                a < b /\ OutputRow(RowsLoaded[a]) = table[j] /\ OutputRow(RowsLoaded[b]) = table[i]

-----------------------------------------------------------------------------
(* C25: the merged table holds every row read, once                        *)

\* the rows of the readable files: the file and the row's number in it
RowsOnDisk ==
    UNION { {<<f, k>> : k \in 1..Len(f.rows)} : f \in {g \in disk : g.readable} }

\* the row as it is to be written: tagged with its file's directory
Expected(fk) == OutputRow(TagRow(fk[1].rows[fk[2]], fk[1].dir))

\* the sum of the frame counts of the report for the videos
RECURSIVE SumFrames(_, _)
SumFrames(videos, rep) ==
    IF videos = << >> THEN 0
    ELSE rep.videos[videos[1]].frames + SumFrames(Tail(videos), rep)

\* C25: the merged table is a permutation of all the rows read from all the
\* source files, none dropped or duplicated, each with the identifier of
\* the source it was read from as video_name; the per-source counts of the
\* statistics add up to the length of the merged table.
C25_MergedTableIsPermutationOfRowsRead ==
    pcc = "done" =>
        /\ Len(table) = Cardinality(RowsOnDisk)
        /\ \A k \in 1..Len(table) :
              Count(table, table[k]) = Cardinality({fk \in RowsOnDisk : Expected(fk) = table[k]})
        /\ \A fk \in RowsOnDisk : \E k \in 1..Len(table) :
              table[k] = Expected(fk) /\ table[k].video_name = fk[1].dir
        /\ SumFrames(SortedVideos(video_stats), report) = Len(table)
        /\ report.global.frames = Len(table)

\* three rows of two sources, in two files of the first and one of the
\* second, were merged
C25_Witness ==
    /\ pcc = "done" /\ Len(table) = MaxRows
    /\ \E f, g, h \in disk :
          /\ f.dir = g.dir /\ f.name # g.name /\ h.dir # f.dir
          /\ f.rows # << >> /\ g.rows # << >> /\ h.rows # << >>

-----------------------------------------------------------------------------
(* C26: the nodes of the grid                                              *)

\* C26: for a non-empty point set and grid_size >= 1, the nodes returned by
\* create_interpolation_grid have pairwise distinct (lat, lon) coordinates
\* and number at most (grid_size + 1) ** 2, also when all points share a
\* latitude or a longitude.
C26_DistinctNodes ==
    pcg = "returned" =>
        /\ Len(grid_points) <= (grid_size + 1) * (grid_size + 1)
        /\ \A a, b \in 1..Len(grid_points) :
              a # b => <<grid_points[a].lat, grid_points[a].lon>>
                         # <<grid_points[b].lat, grid_points[b].lon>>

-----------------------------------------------------------------------------
(* C27: a node's value is within the scores of the points in its range     *)

\* the scores of the points within max_distance of the node (i, j)
ScoresInRange(i, j) == { points[k].health : k \in {n \in 1..Len(points) : NodeInRange(i, j, n)} }

\* C27: every node value returned lies between the minimum and the maximum
\* score of the input points within the influence radius of that node
\* (scores with two decimals, as the scoring stage writes them); so with
\* all scores in 0..100 every value is in 0..100.
C27_ValueWithinScoresInRange ==
    pcg = "returned" =>
        \A i \in NodeIndices, j \in NodeIndices : \A n \in EntriesOf(i, j) :
            /\ ScoresInRange(i, j) # {}
            /\ Min(ScoresInRange(i, j)) <= grid_points[n].health
            /\ grid_points[n].health <= Max(ScoresInRange(i, j))
            /\ 0 <= grid_points[n].health /\ grid_points[n].health <= 10000

\* a node with two scores in range and none very close has a value strictly
\* between them
C27_Witness ==
    /\ pcg = "returned"
    /\ \E i \in NodeIndices, j \in NodeIndices : \E n \in EntriesOf(i, j) :
          /\ \A k \in 1..Len(points) : ~NodeVeryClose(i, j, k)
          /\ Min(ScoresInRange(i, j)) < grid_points[n].health
          /\ grid_points[n].health < Max(ScoresInRange(i, j))

-----------------------------------------------------------------------------
(* C28: the grid and the order of the input points                         *)

\* the orders in which the points of the list can be given
PointOrders == { q \in [1..Len(points) -> 1..Len(points)] :
              \A a, b \in 1..Len(points) : a # b => q[a] # q[b] }

Reordered(q) == [k \in 1..Len(points) |-> points[q[k]]]

\* the scores of the points within epsilon of the n-th node returned
ScoresVeryClose(n) ==
    { points[k].health :
        k \in { m \in 1..Len(points) :
                  /\ InRange(grid_points[n].lat, grid_points[n].lon, points[m], grid_size)
                  /\ VeryClose(grid_points[n].lat, grid_points[n].lon, points[m], grid_size) } }

\* C28 (as claimed): for every permutation of the input points the grid
\* returned is the same, nodes and values, also when several points with
\* different scores lie within epsilon of a node.
C28_SameGridForEveryOrder ==
    pcg = "returned" =>
        \A q \in PointOrders : create_interpolation_grid(Reordered(q), grid_size) = grid_points

\* C28 (amended): for every permutation of the input points the same nodes
\* are returned in the same order, and a node has the same value unless
\* points with different scores lie within epsilon of it.
C28_SameGridUnlessVeryCloseScoresDiffer ==
    pcg = "returned" =>
        \A q \in PointOrders :
            LET other == create_interpolation_grid(Reordered(q), grid_size)
            IN /\ Len(other) = Len(grid_points)
               /\ \A n \in 1..Len(grid_points) :
                     /\ other[n].lat = grid_points[n].lat
                     /\ other[n].lon = grid_points[n].lon
                     /\ Cardinality(ScoresVeryClose(n)) <= 1
                            => other[n].health = grid_points[n].health

\* points with different scores given in an order that can be changed, and
\* a node that takes its value from both of them
C28_Witness ==
    /\ pcg = "returned"
    /\ Len(points) >= 2
    /\ points[1].health # points[2].health
    /\ \E n \in 1..Len(grid_points) :
          /\ ScoresVeryClose(n) = {}
          /\ grid_points[n].health # points[1].health
          /\ grid_points[n].health # points[2].health
          /\ InRange(grid_points[n].lat, grid_points[n].lon, points[1], grid_size)
          /\ InRange(grid_points[n].lat, grid_points[n].lon, points[2], grid_size)

-----------------------------------------------------------------------------
(* C29: coordinates of either sign                                         *)

\* the lines written with a decimal-degree latitude tag and longitude tag,
\* with the two values as written
WrittenCoordinates ==
    { <<Tag("latitude", Lat50) \o Tag("longitude", Lon11), Lat50, Lon11>>,
      <<Tag("latitude", LatNeg) \o Tag("longitude", Lon11), LatNeg, Lon11>>,
      <<CntLine(<<"5">>) \o <<" ">> \o Tag("latitude", <<"1">>) \o Tag("longitude", <<"2">>),
        <<"1">>, <<"2">>>> }

\* C29: a block with a counter line whose tag line carries decimal-degree
\* latitude and longitude tags, negative values included, yields a record
\* with the latitude and the longitude as written.
C29_RecordForCoordinatesOfEitherSign ==
    pcx = "done" =>
        \A w \in WrittenCoordinates :
            ( /\ HasCounter(lines)
              /\ TagLines(lines) # {}
              /\ lines[Min(TagLines(lines))] = w[1] )
            => /\ frame # NoneFrame
               /\ frame.latitude = w[2]
               /\ frame.longitude = w[3]

\* the same for the values without a sign
C29_RecordForUnsignedCoordinates ==
    pcx = "done" =>
        \A w \in WrittenCoordinates :
            ( /\ HasCounter(lines)
              /\ TagLines(lines) # {}
              /\ lines[Min(TagLines(lines))] = w[1]
              /\ Head(w[2]) # "-" )
            => /\ frame # NoneFrame
               /\ frame.latitude = w[2]
               /\ frame.longitude = w[3]

-----------------------------------------------------------------------------
(* C12: scoring adds a column and keeps the rows *)

\* a is b with some elements left out, the order kept
RECURSIVE IsSubseq(_, _)
IsSubseq(a, b) ==
    IF a = << >> THEN TRUE
    ELSE IF b = << >> THEN FALSE
    ELSE IF a[1] = b[1] THEN IsSubseq(Tail(a), Tail(b))
    ELSE IsSubseq(a, Tail(b))

\* the written rows without the score column
InputFieldsOf(rows) ==
    [k \in 1..Len(rows) |-> [c \in DOMAIN rows[k] \ {"health_index"} |-> rows[k][c]]]

\* the text is the literal of a number: float() gives a finite value
ParsesAsNumber(t) == Truthy(t) /\ DOMAIN float(t) \in {{"val"}, {"huge"}}

RECURSIVE SelectNumeric(_)
SelectNumeric(rows) ==
    IF rows = << >> THEN << >>
    ELSE (IF ParsesAsNumber(rows[1].latitude) /\ ParsesAsNumber(rows[1].longitude)
          THEN <<rows[1]>> ELSE << >>) \o SelectNumeric(Tail(rows))

\* C12: every row written has the input row's fields unchanged, in the input
\* order, with only the score column added, and no row whose latitude and
\* longitude parse as numbers is dropped.
C12_AdditiveAndNoNumericRowDropped ==
    pch = "done" =>
        /\ output_csv.fieldnames = input_csv.fieldnames \o <<"health_index">>
        /\ \A k \in 1..Len(output_csv.rows) : "health_index" \in DOMAIN output_csv.rows[k]
        /\ IsSubseq(InputFieldsOf(output_csv.rows), input_csv.rows)
        /\ IsSubseq(SelectNumeric(input_csv.rows), InputFieldsOf(output_csv.rows))

====
